---- MODULE Spec2Model ----
(***************************************************************************)
(* Model of the Transcript Integration Engine                              *)
(* (src/transcript_integrator/integrator.py) as it is driven by the chat   *)
(* front-end (src/discord_bot/bot.py): an engine whose catalog caches have *)
(* been loaded, a transactional store, and process_transcript coroutines   *)
(* that interleave at their await points.                                  *)
(*                                                                         *)
(* Names are sequences of one-character strings so that str.strip,         *)
(* str.lower and difflib's similarity ratio are computed, not assumed.     *)
(***************************************************************************)
EXTENDS Integers, Sequences, FiniteSets, TLC

(***************************************************************************)
(* Bounds of the model.                                                    *)
(***************************************************************************)
\* number of store operations (flush, commit) the environment makes fail
MaxFailures == 2

(***************************************************************************)
(* Strings.                                                                *)
(***************************************************************************)
\* the letters
UpperCase ==
    <<"A", "B", "C", "D", "E", "F", "G", "H", "I", "J", "K", "L", "M",
      "N", "O", "P", "Q", "R", "S", "T", "U", "V", "W", "X", "Y", "Z">>
LowerCase ==
    <<"a", "b", "c", "d", "e", "f", "g", "h", "i", "j", "k", "l", "m",
      "n", "o", "p", "q", "r", "s", "t", "u", "v", "w", "x", "y", "z">>

\* str.lower() on one character
LowerChar(c) ==
    IF \E n \in 1..26 : UpperCase[n] = c
    THEN LowerCase[CHOOSE n \in 1..26 : UpperCase[n] = c]
    ELSE c

\* str.lower()
Lower(s) == [i \in 1..Len(s) |-> LowerChar(s[i])]

IsSpace(c) == c = " "

RECURSIVE LStrip(_)
LStrip(s) == IF s # <<>> /\ IsSpace(Head(s)) THEN LStrip(Tail(s)) ELSE s

RECURSIVE RStrip(_)
RStrip(s) ==
    IF s # <<>> /\ IsSpace(s[Len(s)]) THEN RStrip(SubSeq(s, 1, Len(s) - 1)) ELSE s

\* str.strip()
Strip(s) == RStrip(LStrip(s))

\* tuple/str ordering of Python (lexicographic, shorter prefix first) on the
\* characters used here; code points: " " < "A".."Z" < "a".."z"
Ord(c) ==
    CASE c = " " -> 32
      [] c = "A" -> 65 [] c = "B" -> 66 [] c = "X" -> 88 [] c = "Y" -> 89
      [] c = "a" -> 97 [] c = "b" -> 98 [] c = "c" -> 99 [] c = "d" -> 100
      [] c = "x" -> 120 [] c = "y" -> 121 [] c = "z" -> 122
      [] OTHER -> 63

RECURSIVE StrLess(_, _)
StrLess(s, t) ==
    IF t = <<>> THEN FALSE
    ELSE IF s = <<>> THEN TRUE
    ELSE IF Ord(Head(s)) # Ord(Head(t)) THEN Ord(Head(s)) < Ord(Head(t))
    ELSE StrLess(Tail(s), Tail(t))

(***************************************************************************)
(* difflib.SequenceMatcher and difflib.get_close_matches (Python standard  *)
(* library, called by the resolver).  No character is junk and autojunk    *)
(* needs 200 characters, so the longest block is the plain longest common  *)
(* substring, earliest in a and then earliest in b.                        *)
(***************************************************************************)
RECURSIVE CommonLen(_, _, _, _, _, _)
CommonLen(a, b, i, j, ahi, bhi) ==
    IF i > ahi \/ j > bhi THEN 0
    ELSE IF a[i] # b[j] THEN 0
    ELSE 1 + CommonLen(a, b, i + 1, j + 1, ahi, bhi)

\* find_longest_match(alo, ahi, blo, bhi) as <<i, j, k>> (k = 0: none)
FindLongestMatch(a, b, alo, ahi, blo, bhi) ==
    LET cands == (alo..ahi) \X (blo..bhi)
        K(p) == CommonLen(a, b, p[1], p[2], ahi, bhi)
        best == CHOOSE p \in cands :
                    \A q \in cands :
                        \/ K(p) > K(q)
                        \/ /\ K(p) = K(q)
                           /\ \/ p[1] < q[1]
                              \/ (p[1] = q[1] /\ p[2] <= q[2])
    IN  <<best[1], best[2], K(best)>>

\* sum of the sizes of get_matching_blocks() inside a[alo..ahi], b[blo..bhi]
RECURSIVE Matches(_, _, _, _, _, _)
Matches(a, b, alo, ahi, blo, bhi) ==
    IF alo > ahi \/ blo > bhi THEN 0
    ELSE LET m == FindLongestMatch(a, b, alo, ahi, blo, bhi)
         IN  IF m[3] = 0 THEN 0
             ELSE Matches(a, b, alo, m[1] - 1, blo, m[2] - 1)
                  + m[3]
                  + Matches(a, b, m[1] + m[3], ahi, m[2] + m[3], bhi)

\* SequenceMatcher.ratio() = 2.0 * M / T, kept as the pair <<2M, T>>
Ratio(a, b) == <<2 * Matches(a, b, 1, Len(a), 1, Len(b)), Len(a) + Len(b)>>

\* ratio >= cutoff, cutoff in hundredths; ratio() is 1.0 when both are empty
RatioAtLeast(r, cutoff) == IF r[2] = 0 THEN TRUE ELSE r[1] * 100 >= cutoff * r[2]

\* r1 < r2 for two ratios
RatioLess(r1, r2) ==
    LET n1 == IF r1[2] = 0 THEN 1 ELSE r1[1]
        d1 == IF r1[2] = 0 THEN 1 ELSE r1[2]
        n2 == IF r2[2] = 0 THEN 1 ELSE r2[1]
        d2 == IF r2[2] = 0 THEN 1 ELSE r2[2]
    IN  n1 * d2 < n2 * d1

\* a get_close_matches that wants the score above the cutoff
GetCloseMatchesAbove(word, possibilities, cutoff) ==
    LET score == [x \in possibilities |-> Ratio(x, word)]
        ok == {x \in possibilities : score[x][1] * 100 > cutoff * score[x][2]}
    IN  {x \in ok :
            \A y \in ok \ {x} :
                \/ RatioLess(score[y], score[x])
                \/ (~RatioLess(score[x], score[y]) /\ StrLess(y, x))}

\* get_close_matches(word, possibilities, n=1, cutoff): the set holding the
\* best possibility, or {} .  heapq.nlargest(1, ...) is max() over (score, x)
\* tuples, so equal scores are decided by the larger string.
GetCloseMatches(word, possibilities, cutoff) ==
    LET score == [x \in possibilities |-> Ratio(x, word)]
        ok == {x \in possibilities : RatioAtLeast(score[x], cutoff)}
    IN  {x \in ok :
            \A y \in ok \ {x} :
                \/ RatioLess(score[y], score[x])
                \/ (~RatioLess(score[x], score[y]) /\ StrLess(y, x))}


(***************************************************************************)
(* The catalog the store holds before any run, and what the completion     *)
(* service may answer.                                                     *)
(***************************************************************************)
\* committee(member_id, member_name), models.py Committee
CommitteeRows ==
    {[member_id |-> 1, member_name |-> <<"A", "b">>],
     [member_id |-> 2, member_name |-> <<"X", "y">>]}
\* projects(project_id, project_name), models.py Project
ProjectRows == {[project_id |-> 1, project_name |-> <<"a", "b", "c", "d">>]}
\* topic(topic_id, topic_name); by = 0: not written by any run
TopicRows == {[topic_id |-> 1, topic_name |-> <<"A", "b", "c">>, by |-> 0]}

\* the process_transcript coroutines that may be alive on one engine
Runs == {1, 2}

\* meeting_name argument of run r
MeetingName(r) == <<"m", r>>

\* MEETING_TYPES, lines 69-80
MEETING_TYPES ==
    {"executive", "projects_subcommittee", "events_subcommittee",
     "sponsorships_subcommittee", "marketing_subcommittee",
     "content-creation_subcommittee", "hr_subcommittee", "full", "unscheduled"}

\* a parsed JSON object (a dict): the keys it has and their values
EmptyDict ==
    [keys |-> {}, member_names |-> <<>>, project_names |-> <<>>,
     topics |-> <<>>, tasks |-> <<>>]

\* JSON null where a name is expected (None after json.loads)
None == <<"None">>

\* dict.get(k, default)
Get(d, k, default) == IF k \in d.keys THEN d[k] ELSE default

\* the "topics" lists of the topics extraction: a new name; the same new
\* name in two spellings; a name that fuzzy-matches the catalog ("abcd" ~
\* "abc", ratio 6/7) and a blank one; an entry whose name is null
TopicLists ==
    { <<[topic_name |-> <<" ", "X">>]>>,
      <<[topic_name |-> <<"x">>], [topic_name |-> <<" ", "X">>]>>,
      <<[topic_name |-> <<"a", "b", "c", "d">>], [topic_name |-> <<" ">>]>>,
      <<[topic_name |-> None]>> }

\* the "tasks" lists of the tasks extraction: a task with one assignee who
\* resolves and one who does not
TaskLists ==
    { <<[task_name |-> <<"d">>, assigned_to |-> <<<<"a", "b">>, <<"z">>>>]>> }

\* further "tasks" lists, for runs that follow one another: the same task
\* followed by a task of the same name with no assignee; a task whose only
\* assignee does not resolve
MoreTaskLists ==
    { <<[task_name |-> <<"d">>, assigned_to |-> <<<<"a", "b">>, <<"z">>>>],
        [task_name |-> <<"d">>, assigned_to |-> <<>>]>>,
      <<[task_name |-> <<"d", " ">>, assigned_to |-> <<<<"z">>>>]>> }

\* a "tasks" list for a single call: a task assigned to the same member in
\* two spellings
RepeatedAssigneeLists ==
    { <<[task_name |-> <<"d">>,
         assigned_to |-> <<<<"a", "b">>, <<"A", "B">>>>]>> }

\* the member and project name lists of the members/projects extraction:
\* two members in another order than the catalog's with an unknown name
\* between them, and the first member again in another spelling; an unknown
\* project, one that fuzzy-matches ("abc" ~ "abcd", ratio 6/7) and the same
\* project by its name in other case
MemberNameLists == { <<<<"x", "y">>, <<"z">>, <<"A", "b">>, <<"X", "Y">>>> }
ProjectNameLists == { <<<<"z">>, <<"a", "b", "c">>, <<"A", "B", "c", "d">>>> }

\* the texts of the summary call
SummaryTexts == { <<" ", "s">> }

\* a completion text: "" , a JSON object, a JSON array, or plain prose
EmptyText == [kind |-> "empty"]
ObjectText(d) == [kind |-> "object", obj |-> d]
ArrayText == [kind |-> "array"]
PlainText(s) == [kind |-> "plain", chars |-> s]

\* the texts of a JSON extraction that are not the object asked for: valid
\* JSON that is a bare list, and prose
ValidButNotObject == {ArrayText}
NotJson == {PlainText(<<"s">>)}

\* the texts the completion service may answer to each of the four prompts
MembersProjectsTexts ==
    {ObjectText([EmptyDict EXCEPT !.keys = {"member_names", "project_names"},
                                  !.member_names = m, !.project_names = p]) :
        m \in MemberNameLists, p \in ProjectNameLists}
    \cup ValidButNotObject
TopicsTexts ==
    {ObjectText([EmptyDict EXCEPT !.keys = {"topics"}, !.topics = l]) : l \in TopicLists}
    \cup ValidButNotObject
TasksTextsOf(lists) ==
    {ObjectText([EmptyDict EXCEPT !.keys = {"tasks"}, !.tasks = l]) : l \in lists}
TasksTexts == TasksTextsOf(TaskLists) \cup ValidButNotObject
MoreTasksTexts == TasksTextsOf(MoreTaskLists) \cup NotJson
SummaryAnswers == {PlainText(s) : s \in SummaryTexts}

\* what one completion call does: it raises, or it answers with a text
Raise == [raised |-> TRUE]
RaiseTimeout == [raised |-> TRUE, timeout |-> TRUE]
Answer(t) == [raised |-> FALSE, content |-> t]
Outcomes(texts) == {Raise} \cup {Answer(t) : t \in texts}

\* a catalog and names at the cutoffs.  Rep(c, n) is c * n; the key is
\* 13 characters long, so that SequenceMatcher(None, key, name).ratio() is
\* 14/20 = 0.7 for "a" * 7, 16/23 for "a" * 8 + "zz" and 26/40 = 0.65 for
\* "a" * 13 + "z" * 14
Rep(c, n) == [k \in 1..n |-> c]
CutoffKey == Rep("a", 13)
CutoffNames ==
    { Rep("a", 7), Rep("a", 8) \o Rep("z", 2), Rep("a", 13) \o Rep("z", 14) }
CutoffCommitteeRows ==
    {[member_id |-> 1, member_name |-> CutoffKey],
     [member_id |-> 2, member_name |-> <<"X", "y">>]}
CutoffProjectRows == {[project_id |-> 1, project_name |-> CutoffKey]}
CutoffTopicRows == {[topic_id |-> 1, topic_name |-> CutoffKey, by |-> 0]}

\* the answers of the extractions on that catalog: one name each
CutoffMembersProjectsTexts ==
    {ObjectText([EmptyDict EXCEPT !.keys = {"member_names", "project_names"},
                                  !.member_names = <<m>>, !.project_names = <<p>>]) :
        m \in CutoffNames, p \in CutoffNames}
CutoffTopicsTexts ==
    {ObjectText([EmptyDict EXCEPT !.keys = {"topics"},
                                  !.topics = <<[topic_name |-> n]>>]) :
        n \in CutoffNames}
CutoffTasksTexts ==
    TasksTextsOf({ <<[task_name |-> <<"d">>, assigned_to |-> <<n>>]>> :
                      n \in CutoffNames })

(***************************************************************************)
(* State.                                                                  *)
(***************************************************************************)
VARIABLES
    store,              \* committed rows of the relational store, per table
    seq,                \* the autoincrement sequences of topic, tasks, meeting
    committee_members,  \* self.committee_members: lower-cased name -> record
    projects,           \* self.projects
    topics,             \* self.topics
    run,                \* the process_transcript coroutines: position and locals
    failures,           \* store operations that have failed so far
    bot,                \* the process that owns the engine: its environment,
                        \* bot.transcript_integrator, where setup() is, and
                        \* where each caller of get_integrator is
    handler,            \* the FileWatcherHandler, the files of its folder and
                        \* where its wizard is
    chat                \* bot.conversation_history and the on_message
                        \* coroutines

vars ==
    <<store, seq, committee_members, projects, topics, run, failures, bot,
      handler, chat>>

Tables ==
    {"committee", "projects", "topic", "tasks", "meeting", "meeting_members",
     "meeting_projects", "meeting_topics", "meeting_tasks", "task_members"}

\* the tables a run writes
WrittenTables == Tables \ {"committee", "projects"}

\* a session with nothing pending
EmptySession == [t \in Tables |-> {}]

\* _load_committee_members: rows with a name, keyed by name.lower()
LoadCommitteeMembers(rows) ==
    LET named == {m \in rows : m.member_name # <<>>}
    IN  [k \in {Lower(m.member_name) : m \in named} |->
            LET m == CHOOSE m \in named : Lower(m.member_name) = k
            IN  [id |-> m.member_id, name |-> m.member_name]]

\* _load_projects
LoadProjects(rows) ==
    LET named == {p \in rows : p.project_name # <<>>}
    IN  [k \in {Lower(p.project_name) : p \in named} |->
            LET p == CHOOSE p \in named : Lower(p.project_name) = k
            IN  [id |-> p.project_id, name |-> p.project_name]]

\* _load_topics
LoadTopics(rows) ==
    LET named == {t \in rows : t.topic_name # <<>>}
    IN  [k \in {Lower(t.topic_name) : t \in named} |->
            LET t == CHOOSE t \in named : Lower(t.topic_name) = k
            IN  [id |-> t.topic_id, name |-> t.topic_name]]

NoResult == [success |-> FALSE]

\* a coroutine that has not been called: no locals yet.  attempts counts the
\* attempts of the pending completion call that the client has given up,
\* given_up remembers the calls that ended so; reported is what the file
\* watcher has told its user about the run
IdleFrame ==
    [pc |-> "idle", file |-> [readable |-> FALSE],
     meeting_name |-> <<>>, meeting_type |-> "",
     members_projects |-> EmptyDict,
     topics_data |-> <<>>, tasks_data |-> <<>>, summary |-> <<>>,
     matched_members |-> <<>>, matched_projects |-> <<>>,
     processed_topics |-> <<>>, new_topics_count |-> 0,
     processed_tasks |-> <<>>,
     i |-> 0,
     new_task |-> [task_name |-> <<>>, task_deadline |-> <<>>,
                   assignee_ids |-> <<>>],
     session |-> EmptySession, meeting_id |-> 0,
     result |-> NoResult, error |-> "none",
     degraded |-> {}, llm_calls |-> 0,
     attempts |-> 0, given_up |-> {}, reported |-> "nothing"]

(***************************************************************************)
(* The file watcher (src/transcript_integrator/file_watcher.py): paths,    *)
(* the answers typed at its prompts and the handler's state.               *)
(***************************************************************************)
\* a path: under the watched directory or not, the folders below it and the
\* file name
Path(root, parts, name) == [root |-> root, parts |-> parts, name |-> name]

\* MEETING_TYPES of file_watcher.py, lines 43-53: menu key -> type id
WatcherMeetingTypes ==
    <<"1">> :> <<"e", "x", "e", "c", "u", "t", "i", "v", "e">> @@
    <<"2">> :> <<"p", "r", "o", "j", "e", "c", "t", "s", "_", "s", "u", "b", "c", "o", "m", "m", "i", "t", "t", "e", "e">> @@
    <<"3">> :> <<"e", "v", "e", "n", "t", "s", "_", "s", "u", "b", "c", "o", "m", "m", "i", "t", "t", "e", "e">> @@
    <<"4">> :> <<"s", "p", "o", "n", "s", "o", "r", "s", "h", "i", "p", "s", "_", "s", "u", "b", "c", "o", "m", "m", "i", "t", "t", "e", "e">> @@
    <<"5">> :> <<"m", "a", "r", "k", "e", "t", "i", "n", "g", "_", "s", "u", "b", "c", "o", "m", "m", "i", "t", "t", "e", "e">> @@
    <<"6">> :> <<"c", "o", "n", "t", "e", "n", "t", "-", "c", "r", "e", "a", "t", "i", "o", "n", "_", "s", "u", "b", "c", "o", "m", "m", "i", "t", "t", "e", "e">> @@
    <<"7">> :> <<"h", "r", "_", "s", "u", "b", "c", "o", "m", "m", "i", "t", "t", "e", "e">> @@
    <<"8">> :> <<"f", "u", "l", "l">> @@
    <<"9">> :> <<"u", "n", "s", "c", "h", "e", "d", "u", "l", "e", "d">>

\* the answers that cancel a prompt
CancelWords == {<<"c", "a", "n", "c", "e", "l">>, <<"c">>, <<"q">>}

\* datetime.now().strftime('%d-%m-%Y') on the day of the run
Today == <<"0", "6", "-", "1", "1", "-", "2", "0", "2", "6">>

\* a handler after __init__ (lines 59-71) on a watched folder without files
\* or subfolders.  Ghost fields: wizards (the paths a wizard was started
\* for, in order), before (files, folders and integration threads when the
\* wizard started), outcome, cancelled_at, copied, deleted, answers (what
\* was typed at the prompts that follow the four steps)
NoPath == Path("none", <<>>, <<>>)
NotAsked ==
    [confirm |-> <<"?">>, delete_original |-> <<"?">>, run_integration |-> <<"?">>]
NewHandler ==
    [fs |-> {}, dirs |-> {}, processed_files |-> {}, threads |-> {},
     pc |-> "idle", file_path |-> NoPath,
     meeting_type |-> <<>>, date_str |-> <<>>, meeting_name |-> <<>>,
     destination_path |-> NoPath,
     events |-> 0, wizards |-> <<>>,
     before |-> [fs |-> {}, dirs |-> {}, threads |-> {}],
     outcome |-> "none", cancelled_at |-> "none",
     copied |-> FALSE, deleted |-> FALSE, answers |-> NotAsked]

\* ---- the chat of the bot (discord_bot/bot.py 196-383) ----

\* how many messages arrive in the channels while the bot runs
MaxMessages == 7

\* how many of them arrive where the answers of the model are of every
\* kind, and where two are handled at a time
MaxToolMessages == 2
MaxChatMessages == 3

\* the keys of bot.conversation_history, (channel id, user id): two users
\* writing in one channel (bot.py 348)
Keys == {<<1, 1>>, <<1, 2>>}
NoKey == <<0, 0>>

\* the on_message tasks that discord.py has running at one time: every
\* message is dispatched as a task of its own on the event loop
Handlers == {1, 2}

\* a piece of text: its wording and, for a text that differs from message
\* to message, the number of the message it belongs to
Text(of, n) == [of |-> of, n |-> n]
NoText == Text("None", 0)

\* the list objects of the history: the list that history = ...get(key, [])
\* creates for the n-th message when the key is absent (bot.py 349) and the
\* list that history[-12:] creates for it (379); no list is the value 0
NoList == 0
FreshList(n) == 2 * n - 1
SlicedList(n) == 2 * n
Lists == 1 .. (2 * MaxMessages)

\* the locals of on_message and of the process_with_tools it awaits
IdleTask ==
    [pc |-> "idle", n |-> 0, key |-> NoKey, text |-> NoText,
     history |-> NoList, messages |-> <<>>, iteration |-> 0,
     tool_calls |-> 0, responses |-> <<>>]

\* nothing sent to a channel yet
NothingSent ==
    [n |-> 0, responses |-> <<>>, raised |-> FALSE, returned |-> NoText,
     reply |-> NoText]

\* bot.tool_executor = None and bot.conversation_history = {} (bot.py
\* 196-200), no message being handled.  conversation_history maps a key to
\* its list object (NoList: the key is not in the dict), lists holds the
\* elements of every list object that is referenced; arrivals, sent and
\* pairs are ghosts: the number of messages so far, what the last finished
\* handler sent, and per key the pairs of the handlers that finished
\* without an exception, in the order they finished
NewChat ==
    [tool_executor |-> "None",
     conversation_history |-> [k \in Keys |-> NoList],
     lists |-> [i \in Lists |-> <<>>],
     task |-> [h \in Handlers |-> IdleTask],
     arrivals |-> 0, sent |-> NothingSent,
     pairs |-> [k \in Keys |-> <<>>]]

\* a process whose engine is constructed and set up, and has been handed
\* to every caller
ReadyBot ==
    [DATABASE_URL |-> TRUE, OPENAI_API_KEY |-> TRUE,
     transcript_integrator |-> "engine", setup |-> "done", setups |-> 1,
     caller |-> [r \in Runs |-> "returned"]]

\* the engine after __init__ and setup() on a store that holds the given
\* catalog rows: caches loaded from the store
InitOn(committee_rows, project_rows, topic_rows) ==
    /\ store = [t \in Tables |->
                  CASE t = "committee" -> committee_rows
                    [] t = "projects" -> project_rows
                    [] t = "topic" -> topic_rows
                    [] OTHER -> {}]
    /\ seq = [topic |-> 2, tasks |-> 1, meeting |-> 1]
    /\ committee_members = LoadCommitteeMembers(committee_rows)
    /\ projects = LoadProjects(project_rows)
    /\ topics = LoadTopics(topic_rows)
    /\ run = [r \in Runs |-> IdleFrame]
    /\ failures = 0
    /\ bot = ReadyBot
    /\ handler = NewHandler
    /\ chat = NewChat

Init == InitOn(CommitteeRows, ProjectRows, TopicRows)


(***************************************************************************)
(* Extraction Client.                                                      *)
(***************************************************************************)
\* an exception on its way out of a call
Exception == [kind |-> "exception"]

\* _call_llm without its except clause: the exception of the call propagates
CallLlmUncaught(outcome) == IF outcome.raised THEN Exception ELSE outcome.content

\* _call_llm: the text of the answer; the except clause turns a raising call
\* into ""
CallLlm(outcome) == IF outcome.raised THEN EmptyText ELSE outcome.content

\* what json.loads gives for a JSON array: a list, which has no get()
JsonList == [kind |-> "list"]

IsDict(v) == "keys" \in DOMAIN v

\* _parse_json_response: json.loads of the stripped text, whatever JSON
\* value it is; {} only when json.loads raises JSONDecodeError
ParseJsonResponse(response) ==
    CASE response.kind = "object" -> response.obj
      [] response.kind = "array" -> JsonList
      [] OTHER -> EmptyDict

\* _generate_summary's return value: response.strip()
SummaryOf(response) ==
    IF response.kind = "plain" THEN Strip(response.chars) ELSE <<>>

\* a _call_llm that calls the service once more when the call raised
CalledTwice(f, op, outcome) ==
    [f EXCEPT !.llm_calls = IF outcome.raised THEN @ + 2 ELSE @ + 1,
              !.degraded = IF outcome.raised THEN @ \cup {op} ELSE @,
              !.given_up = IF "timeout" \in DOMAIN outcome THEN @ \cup {op} ELSE @,
              !.attempts = 0]

\* one completion call of run r: counted, and remembered when it raised
Called(f, op, outcome) ==
    [f EXCEPT !.llm_calls = @ + 1,
              !.degraded = IF outcome.raised THEN @ \cup {op} ELSE @,
              !.given_up = IF "timeout" \in DOMAIN outcome THEN @ \cup {op} ELSE @,
              !.attempts = 0]

\* the completion client (AsyncOpenAI as constructed at line 104, with its
\* defaults): an attempt that gets no answer within the request timeout is
\* given up and retried max_retries times, then the call raises
\* APITimeoutError
MaxRetries == 2

\* a client without a request timeout: it goes on waiting
RetryWaits(f) == f

\* the client gives an attempt up and sends the request again
Retry(f) == [f EXCEPT !.attempts = @ + 1]

(***************************************************************************)
(* Entity Resolver.                                                        *)
(***************************************************************************)
\* difflib cutoffs, in hundredths
MemberCutoff == 70
\* a project resolver with the cutoff of the members
ProjectCutoffOfMembers == MemberCutoff
ProjectCutoff == 60
TopicCutoff == 70
AssigneeCutoff == 70

\* a resolver that compares the name as it was extracted
ResolveKeyAsExtracted(name, catalog, cutoff) ==
    IF name \in DOMAIN catalog THEN {name}
    ELSE GetCloseMatches(name, DOMAIN catalog, cutoff)

\* the key a name resolves to in a catalog: {key} or {}
ResolveKey(name, catalog, cutoff) ==
    LET key == Lower(name)
    IN  IF key \in DOMAIN catalog THEN {key}
        ELSE GetCloseMatches(key, DOMAIN catalog, cutoff)

\* a resolver that keeps a name it cannot resolve
RECURSIVE MatchNamesKeepsAll(_, _, _)
MatchNamesKeepsAll(names, catalog, cutoff) ==
    IF names = <<>> THEN <<>>
    ELSE LET hit == ResolveKey(Head(names), catalog, cutoff)
             rest == MatchNamesKeepsAll(Tail(names), catalog, cutoff)
         IN  IF hit = {} THEN <<[id |-> 0, name |-> Head(names)]>> \o rest
             ELSE <<catalog[CHOOSE k \in hit : TRUE]>> \o rest

\* _match_members / _match_projects: the records of the names that resolve,
\* in order
RECURSIVE MatchNames(_, _, _)
MatchNames(names, catalog, cutoff) ==
    IF names = <<>> THEN <<>>
    ELSE LET hit == ResolveKey(Head(names), catalog, cutoff)
             rest == MatchNames(Tail(names), catalog, cutoff)
         IN  IF hit = {} THEN rest
             ELSE <<catalog[CHOOSE k \in hit : TRUE]>> \o rest

MatchMembers(names, members) == MatchNames(names, members, MemberCutoff)
MatchProjects(names, projs) == MatchNames(names, projs, ProjectCutoff)

\* the for loop of _process_topics from entry i on, up to its next await:
\* entries that are blank are skipped, entries that match the cache are
\* appended to processed; it stops at the first entry that needs a new Topic
\* (session.add, await session.flush), at the end (await session.commit),
\* or at an entry whose name is None: None.strip() raises AttributeError
RECURSIVE TopicsLoop(_, _, _, _)
TopicsLoop(cache, topics_data, i, processed) ==
    IF i > Len(topics_data)
    THEN [i |-> i, processed |-> processed, raised |-> FALSE]
    ELSE IF topics_data[i].topic_name = None
    THEN [i |-> i, processed |-> processed, raised |-> TRUE]
    ELSE LET topic_name == Strip(topics_data[i].topic_name)
             hit == ResolveKey(topic_name, cache, TopicCutoff)
         IN  IF topic_name = <<>>
             THEN TopicsLoop(cache, topics_data, i + 1, processed)
             ELSE IF hit # {}
             THEN LET rec == cache[CHOOSE k \in hit : TRUE]
                  IN  TopicsLoop(cache, topics_data, i + 1,
                                 Append(processed,
                                        [topic_id |-> rec.id, topic_name |-> rec.name]))
             ELSE [i |-> i, processed |-> processed, raised |-> FALSE]

\* the assignee ids of one task: member_lookup is the members cache (the
\* matched members are records of the same cache)
RECURSIVE Ids(_)
Ids(recs) == IF recs = <<>> THEN <<>> ELSE <<Head(recs).id>> \o Ids(Tail(recs))

MatchAssignees(assigned_to, member_lookup) ==
    Ids(MatchNames(assigned_to, member_lookup, AssigneeCutoff))

\* a JSON number where the deadline string is expected
ANumber == <<"20260301">>

\* the characters str.isdigit and the \d of strptime accept, of the ones the
\* deadlines here are written in
Digits == <<"0", "1", "2", "3", "4", "5", "6", "7", "8", "9">>
IsDigit(c) == \E n \in 1..10 : Digits[n] = c
DigitValue(c) == (CHOOSE n \in 1..10 : Digits[n] = c) - 1

\* int(s) of a string of digits
RECURSIVE IntOf(_)
IntOf(s) ==
    IF s = <<>> THEN 0
    ELSE 10 * IntOf(SubSeq(s, 1, Len(s) - 1)) + DigitValue(s[Len(s)])

\* s.split("-")
RECURSIVE Split(_)
Split(s) ==
    IF \A k \in 1..Len(s) : s[k] # "-" THEN <<s>>
    ELSE LET k == CHOOSE j \in 1..Len(s) :
                      s[j] = "-" /\ \A h \in 1..(j - 1) : s[h] # "-"
         IN  <<SubSeq(s, 1, k - 1)>> \o Split(SubSeq(s, k + 1, Len(s)))

AllDigits(s) == \A k \in 1..Len(s) : IsDigit(s[k])

\* the directives of _strptime: %Y is \d\d\d\d, %m is 1[0-2]|0[1-9]|[1-9],
\* %d is 3[01]|[12]\d|0[1-9]|[1-9]| [1-9]
MatchesY(s) == Len(s) = 4 /\ AllDigits(s)
MatchesM(s) == Len(s) \in {1, 2} /\ AllDigits(s) /\ IntOf(s) \in 1..12
MatchesD(s) ==
    \/ Len(s) \in {1, 2} /\ AllDigits(s) /\ IntOf(s) \in 1..31
    \/ Len(s) = 2 /\ s[1] = " " /\ IsDigit(s[2]) /\ IntOf(<<s[2]>>) \in 1..9

\* calendar.monthrange: the days of a month
DaysIn(year, month) ==
    IF month = 2
    THEN IF year % 4 = 0 /\ (year % 100 # 0 \/ year % 400 = 0) THEN 29 ELSE 28
    ELSE IF month \in {4, 6, 9, 11} THEN 30 ELSE 31

\* a task without a deadline: task_deadline = None
NoDeadline == <<>>

\* datetime.strptime(deadline_str, '%Y-%m-%d') raises ValueError: the string
\* does not match the format, or names no day of the calendar (year 0,
\* 30 February)
StrptimeRaises(deadline_str) ==
    LET parts == Split(deadline_str)
    IN  IF Len(parts) # 3 THEN TRUE
        ELSE IF ~(MatchesY(parts[1]) /\ MatchesM(parts[2]) /\ MatchesD(parts[3]))
        THEN TRUE
        ELSE \/ IntOf(parts[1]) < 1
             \/ IntOf(SelectSeq(parts[3], IsDigit)) >
                    DaysIn(IntOf(parts[1]), IntOf(parts[2]))

\* datetime.strptime(deadline_str, '%Y-%m-%d').date() as <<year, month, day>>
Strptime(deadline_str) ==
    LET parts == Split(deadline_str)
    IN  <<IntOf(parts[1]), IntOf(parts[2]), IntOf(SelectSeq(parts[3], IsDigit))>>

\* lines 643-645: the deadline is truthy and not 'null' but not a string,
\* and strptime raises TypeError, which nothing catches
DeadlineTypeError(task) ==
    IF "deadline" \notin DOMAIN task THEN FALSE ELSE task.deadline = ANumber

\* a parser that takes the digits of the string for the date, valid or not
ParseDeadlineUnchecked(task) ==
    IF "deadline" \notin DOMAIN task THEN NoDeadline
    ELSE LET digits == SelectSeq(task.deadline, IsDigit)
         IN  IF Len(digits) # 8 THEN NoDeadline
             ELSE <<IntOf(SubSeq(digits, 1, 4)), IntOf(SubSeq(digits, 5, 6)),
                    IntOf(SubSeq(digits, 7, 8))>>

\* lines 637 and 643-649: task.get('deadline') is parsed when it is truthy
\* and not 'null'; a ValueError of strptime is caught and leaves the task
\* without a deadline
ParseDeadline(task) ==
    IF "deadline" \notin DOMAIN task THEN NoDeadline
    ELSE IF task.deadline \in {None, <<>>, <<"n", "u", "l", "l">>} THEN NoDeadline
    ELSE IF StrptimeRaises(task.deadline) THEN NoDeadline
    ELSE Strptime(task.deadline)

\* a resolver that reuses a Task of the same name: the entry creates nothing
RECURSIVE TasksLoopReusing(_, _)
TasksLoopReusing(tasks_data, i) ==
    IF i > Len(tasks_data) THEN i
    ELSE IF \/ Strip(tasks_data[i].task_name) = <<>>
            \/ \E t \in store["tasks"] : t.task_name = Strip(tasks_data[i].task_name)
    THEN TasksLoopReusing(tasks_data, i + 1)
    ELSE i

\* the for loop of _process_tasks from entry i on, up to its next await:
\* tasks without a name are skipped; it stops at the first task to create
\* or at the end
RECURSIVE TasksLoop(_, _)
TasksLoop(tasks_data, i) ==
    IF i > Len(tasks_data) THEN i
    ELSE IF Strip(tasks_data[i].task_name) = <<>> THEN TasksLoop(tasks_data, i + 1)
    ELSE i


(***************************************************************************)
(* Sessions and transactions (sqlalchemy AsyncSession as the engine uses   *)
(* it: "async with session.begin()" commits on commit() and rolls back     *)
(* when an exception leaves the block).                                    *)
(***************************************************************************)
\* a commit that writes its rows over the rows of the table
CommitReplaces(db, session) ==
    [t \in Tables |-> IF session[t] # {} THEN session[t] ELSE db[t]]

\* session.commit(): the pending rows become committed rows
Commit(db, session) == [t \in Tables |-> db[t] \cup session[t]]

\* a transaction that keeps what it had flushed when an exception leaves it
RollbackKeepsFlushed(db, session) == Commit(db, session)

\* the rollback of "async with session.begin()" when an exception leaves the
\* block: the committed rows stay as they were
Rollback(db, session) == db

\* the environment decides whether a flush or commit succeeds
StoreOp(ok) ==
    /\ ok \/ failures < MaxFailures
    /\ failures' = IF ok THEN failures ELSE failures + 1

\* session.add(row) followed by a flush into table t
Pending(session, t, rows) == [session EXCEPT ![t] = @ \cup rows]

Range(q) == {q[k] : k \in 1..Len(q)}

HasDuplicates(q) == \E j, k \in 1..Len(q) : j < k /\ q[j] = q[k]

\* a loop over the ids as they are listed
ListOf(ids) == ids

\* "for member_id in set(member_ids)": each id once (the order in which a
\* set is iterated does not matter to what is added)
RECURSIVE SetOf(_)
SetOf(ids) ==
    IF ids = <<>> THEN <<>>
    ELSE LET front == SubSeq(ids, 1, Len(ids) - 1)
             last == ids[Len(ids)]
         IN  IF last \in Range(front) THEN SetOf(front)
             ELSE Append(SetOf(front), last)

\* lines 727-763: the ids for which _insert_into_database adds a
\* relationship row with the Meeting (one session.add each); for
\* task_members, the ids added with each task
Adds(f) ==
    [meeting_members |-> SetOf(Ids(f.matched_members)),
     meeting_projects |-> SetOf(Ids(f.matched_projects)),
     meeting_topics |->
         SetOf([k \in 1..Len(f.processed_topics) |-> f.processed_topics[k].topic_id]),
     task_members |->
         [k \in 1..Len(f.processed_tasks) |-> f.processed_tasks[k].assignee_ids]]

\* the constraints of models.py that the junction inserts of one meeting
\* transaction can break: foreign keys to topic, tasks and committee rows
\* (committed, or pending in the same session) and the composite primary
\* keys: two rows added for the same pair
IntegrityError(db, session, adds) ==
    LET visible == Commit(db, session)
    IN  \/ \E j \in session["meeting_topics"] :
              j.topic_id \notin {t.topic_id : t \in visible["topic"]}
        \/ \E j \in session["meeting_tasks"] :
              j.task_id \notin {t.task_id : t \in visible["tasks"]}
        \/ \E j \in session["meeting_members"] :
              j.member_id \notin {m.member_id : m \in visible["committee"]}
        \/ \E j \in session["meeting_projects"] :
              j.project_id \notin {m.project_id : m \in visible["projects"]}
        \/ HasDuplicates(adds.meeting_members)
        \/ HasDuplicates(adds.meeting_projects)
        \/ HasDuplicates(adds.meeting_topics)
        \/ \E k \in 1..Len(adds.task_members) :
              HasDuplicates(adds.task_members[k])

(***************************************************************************)
(* Pipeline Orchestrator: process_transcript, one action per await.        *)
(***************************************************************************)
\* the files a run may be pointed at
Files ==
    { [readable |-> FALSE],
      [readable |-> TRUE, content |-> <<>>],
      [readable |-> TRUE, content |-> <<"t">>] }

\* _read_transcript giving a placeholder text for a file it cannot read
ReadTranscriptPlaceholder(file) == IF file.readable THEN file.content ELSE <<"?">>

\* _read_transcript: the content, "" when the file cannot be read
ReadTranscript(file) == IF file.readable THEN file.content ELSE <<>>

\* lines 240-255: the result dictionary
Names(recs) == [k \in 1..Len(recs) |-> recs[k].name]

ResultOf(f) ==
    [success |-> TRUE,
     meeting_id |-> f.meeting_id,
     meeting_name |-> f.meeting_name,
     meeting_type |-> f.meeting_type,
     summary_length |-> Len(f.summary),
     members_identified |-> Len(f.matched_members),
     member_names |-> Names(f.matched_members),
     projects_linked |-> Len(f.matched_projects),
     project_names |-> Names(f.matched_projects),
     topics_linked |-> Len(f.processed_topics),
     topic_names |-> [k \in 1..Len(f.processed_topics) |->
                         f.processed_topics[k].topic_name],
     new_topics_created |-> f.new_topics_count,
     tasks_created |-> Len(f.processed_tasks),
     task_names |-> [k \in 1..Len(f.processed_tasks) |->
                        f.processed_tasks[k].task_name]]

\* what is left of a coroutine that has ended: its locals are gone
Ended(f) ==
    [IdleFrame EXCEPT !.file = f.file, !.degraded = f.degraded,
                      !.llm_calls = f.llm_calls, !.given_up = f.given_up,
                      !.reported = f.reported]

\* process_transcript returns its result dictionary
Returned(f, result) == [Ended(f) EXCEPT !.pc = "Succeeded", !.result = result]

\* a "save what we have" fallback: the failure is turned into a result
RaisedAsPartial(f, err) ==
    [Ended(f) EXCEPT !.pc = "Succeeded", !.result = ResultOf(f)]

\* an exception leaves process_transcript (the open transaction, if any, is
\* rolled back by its context manager on the way)
Raised(f, err) == [Ended(f) EXCEPT !.pc = "Failed", !.error = err]

\* lines 194-209: read the file, then call the first extraction
Start(r, file, meeting_name, meeting_type) ==
    /\ run[r].pc = "idle"
    /\ LET transcript_content == ReadTranscript(file)
           f == [run[r] EXCEPT !.file = file, !.meeting_name = meeting_name,
                               !.meeting_type = meeting_type]
       IN  run' = [run EXCEPT ![r] =
                      IF transcript_content = <<>>
                      THEN Raised(f, "ValueError")
                      ELSE [f EXCEPT !.pc = "await_members_projects"]]
    /\ UNCHANGED <<store, seq, committee_members, projects, topics, failures,
                   bot, handler, chat>>

\* lines 209-211
ExtractMembersAndProjects(r, outcome) ==
    /\ run[r].pc = "await_members_projects"
    /\ LET f == Called(run[r], "members_projects", outcome)
           response == CallLlm(outcome)
       IN  run' = [run EXCEPT ![r] =
                      IF response.kind = "exception" THEN Raised(f, "APIError")
                      ELSE [f EXCEPT
                              !.members_projects = ParseJsonResponse(response),
                              !.pc = "await_topics"]]
    /\ UNCHANGED <<store, seq, committee_members, projects, topics, failures,
                   bot, handler, chat>>

\* line 214 and 390-392: data.get raises AttributeError when the parsed
\* value is not a dict
ExtractTopics(r, outcome) ==
    /\ run[r].pc = "await_topics"
    /\ LET f == Called(run[r], "topics", outcome)
           response == CallLlm(outcome)
           data == ParseJsonResponse(response)
       IN  run' = [run EXCEPT ![r] =
                      IF response.kind = "exception" THEN Raised(f, "APIError")
                      ELSE IF ~IsDict(data) THEN Raised(f, "AttributeError")
                      ELSE [f EXCEPT
                              !.topics_data = Get(data, "topics", <<>>),
                              !.pc = "await_tasks"]]
    /\ UNCHANGED <<store, seq, committee_members, projects, topics, failures,
                   bot, handler, chat>>

\* line 217 and 445-447
ExtractTasks(r, outcome) ==
    /\ run[r].pc = "await_tasks"
    /\ LET f == Called(run[r], "tasks", outcome)
           response == CallLlm(outcome)
           data == ParseJsonResponse(response)
       IN  run' = [run EXCEPT ![r] =
                      IF response.kind = "exception" THEN Raised(f, "APIError")
                      ELSE IF ~IsDict(data) THEN Raised(f, "AttributeError")
                      ELSE [f EXCEPT
                              !.tasks_data = Get(data, "tasks", <<>>),
                              !.pc = "await_summary"]]
    /\ UNCHANGED <<store, seq, committee_members, projects, topics, failures,
                   bot, handler, chat>>

\* where _process_topics waits after its loop stopped at entry i, unless
\* the loop raised
TopicsWait(f, loop) ==
    IF loop.raised THEN Raised(f, "AttributeError")
    ELSE [f EXCEPT !.i = loop.i, !.processed_topics = loop.processed,
                   !.pc = IF loop.i > Len(f.topics_data)
                          THEN "topics_commit" ELSE "topics_flush"]

\* lines 220-225 and 551-594: the summary arrives, members and projects are
\* matched (members_projects.get raises AttributeError when the parsed value
\* is not a dict), _process_topics opens its session and runs to its first
\* await
GenerateSummary(r, outcome) ==
    /\ run[r].pc = "await_summary"
    /\ LET f == Called(run[r], "summary", outcome)
           response == CallLlm(outcome)
           g == IF ~IsDict(f.members_projects) THEN f ELSE
                [f EXCEPT
                   !.summary = SummaryOf(response),
                   !.matched_members =
                       MatchMembers(Get(f.members_projects, "member_names", <<>>),
                                    committee_members),
                   !.matched_projects =
                       MatchProjects(Get(f.members_projects, "project_names", <<>>),
                                     projects)]
       IN  run' = [run EXCEPT ![r] =
                      IF response.kind = "exception" THEN Raised(f, "APIError")
                      ELSE IF ~IsDict(f.members_projects)
                      THEN Raised(f, "AttributeError")
                      ELSE TopicsWait(g, TopicsLoop(topics, g.topics_data, 1, <<>>))]
    /\ UNCHANGED <<store, seq, committee_members, projects, topics, failures,
                   bot, handler, chat>>

\* a resolver that forgets to add the new topic to the cache
CacheTopicSkipped(cache, key, rec) == cache

\* self.topics[key] = {...}
CacheTopic(cache, key, rec) ==
    [k \in DOMAIN cache \cup {key} |-> IF k = key THEN rec ELSE cache[k]]

\* lines 587-609 and the rest of the loop: the flush of a new Topic returns
\* (or raises); its id is read, the cache is updated and the loop runs on to
\* its next await
TopicsFlush(r, ok) ==
    /\ run[r].pc = "topics_flush"
    /\ StoreOp(ok)
    /\ LET f == run[r]
           topic_name == Strip(f.topics_data[f.i].topic_name)
           key == Lower(topic_name)
           topic_id == seq.topic
           cache == CacheTopic(topics, key, [id |-> topic_id, name |-> topic_name])
           g == [f EXCEPT
                   !.session = Pending(@, "topic",
                                       {[topic_id |-> topic_id,
                                         topic_name |-> topic_name, by |-> r]}),
                   !.new_topics_count = @ + 1]
           processed == Append(f.processed_topics,
                               [topic_id |-> topic_id, topic_name |-> topic_name])
           loop == TopicsLoop(cache, f.topics_data, f.i + 1, processed)
       IN  IF ok
           THEN /\ seq' = [seq EXCEPT !.topic = @ + 1]
                /\ topics' = cache
                /\ run' = [run EXCEPT ![r] = TopicsWait(g, loop)]
                /\ store' = IF loop.raised THEN Rollback(store, g.session)
                                           ELSE store
           ELSE /\ run' = [run EXCEPT ![r] = Raised(f, "StorageError")]
                /\ store' = Rollback(store, f.session)
                /\ UNCHANGED <<seq, topics>>
    /\ UNCHANGED <<committee_members, projects, bot, handler, chat>>


\* an orchestrator that opens the meeting transaction without processing
\* the tasks
TasksWaitSkipped(f, i, member_lookup) == [f EXCEPT !.pc = "meeting_flush"]

\* where _process_tasks waits after its loop stopped at entry i: the
\* assignees of the task to create are matched before it is added and flushed
TasksWait(f, i, member_lookup) ==
    IF i > Len(f.tasks_data)
    THEN [f EXCEPT !.i = i, !.pc = "tasks_commit"]
    ELSE IF DeadlineTypeError(f.tasks_data[i])
    THEN Raised(f, "TypeError")
    ELSE [f EXCEPT !.i = i, !.pc = "tasks_flush",
                   !.new_task =
                       [task_name |-> Strip(f.tasks_data[i].task_name),
                        task_deadline |-> ParseDeadline(f.tasks_data[i]),
                        assignee_ids |->
                            MatchAssignees(f.tasks_data[i].assigned_to, member_lookup)]]

\* lines 611-613 and 624-684: the topics transaction commits (or raises),
\* _process_topics returns, _process_tasks opens its own session and runs to
\* its first await
TopicsCommit(r, ok) ==
    /\ run[r].pc = "topics_commit"
    /\ StoreOp(ok)
    /\ LET f == run[r]
       IN  IF ok
           THEN /\ store' = Commit(store, f.session)
                /\ run' = [run EXCEPT ![r] =
                              TasksWait([f EXCEPT !.session = EmptySession],
                                        TasksLoop(f.tasks_data, 1),
                                        committee_members)]
           ELSE /\ run' = [run EXCEPT ![r] = Raised(f, "StorageError")]
                /\ store' = Rollback(store, f.session)
    /\ UNCHANGED <<seq, committee_members, projects, topics, bot, handler,
                   chat>>

\* lines 684-695 and the rest of the loop: the flush of a new Task returns
TasksFlush(r, ok) ==
    /\ run[r].pc = "tasks_flush"
    /\ StoreOp(ok)
    /\ LET f == run[r]
           task_id == seq.tasks
           g == [f EXCEPT
                   !.session = Pending(@, "tasks",
                                       {[task_id |-> task_id,
                                         task_name |-> f.new_task.task_name,
                                         task_deadline |-> f.new_task.task_deadline,
                                         by |-> r]}),
                   !.processed_tasks =
                       Append(@, [task_id |-> task_id,
                                  task_name |-> f.new_task.task_name,
                                  deadline |-> f.new_task.task_deadline,
                                  assignee_ids |-> f.new_task.assignee_ids]),
                   !.new_task = IdleFrame.new_task]
       IN  IF ok
           THEN /\ seq' = [seq EXCEPT !.tasks = @ + 1]
                /\ run' = [run EXCEPT ![r] =
                              TasksWait(g, TasksLoop(f.tasks_data, f.i + 1),
                                        committee_members)]
                /\ UNCHANGED store
           ELSE /\ run' = [run EXCEPT ![r] = Raised(f, "StorageError")]
                /\ store' = Rollback(store, f.session)
                /\ UNCHANGED seq
    /\ UNCHANGED <<committee_members, projects, topics, bot, handler, chat>>

\* lines 697-722: the tasks transaction commits (or raises), _process_tasks
\* returns, _insert_into_database opens its session, adds the Meeting and
\* awaits its flush
TasksCommit(r, ok) ==
    /\ run[r].pc = "tasks_commit"
    /\ StoreOp(ok)
    /\ LET f == run[r]
       IN  IF ok
           THEN /\ store' = Commit(store, f.session)
                /\ run' = [run EXCEPT ![r] =
                              [f EXCEPT !.session = EmptySession,
                                        !.pc = "meeting_flush"]]
           ELSE /\ run' = [run EXCEPT ![r] = Raised(f, "StorageError")]
                /\ store' = Rollback(store, f.session)
    /\ UNCHANGED <<seq, committee_members, projects, topics, bot, handler,
                   chat>>

\* relationship rows that link a task to the meeting only when it has an
\* assignee
JunctionRowsOfAssigned(r, meeting_id, f) ==
    [t \in Tables |->
        CASE t = "meeting_tasks" ->
                {[meeting_id |-> meeting_id, task_id |-> x.task_id, by |-> r] :
                    x \in {y \in Range(f.processed_tasks) : y.assignee_ids # <<>>}}
          [] t = "task_members" ->
                UNION {{[task_id |-> x.task_id, member_id |-> a, by |-> r] :
                            a \in Range(x.assignee_ids)} :
                        x \in Range(f.processed_tasks)}
          [] OTHER -> {}]

\* lines 727-763: the relationship rows _insert_into_database adds to its
\* session after the Meeting row
JunctionRows(r, meeting_id, f) ==
    [t \in Tables |->
        CASE t = "meeting_members" ->
                {[meeting_id |-> meeting_id, member_id |-> id, by |-> r] :
                    id \in Range(Adds(f).meeting_members)}
          [] t = "meeting_projects" ->
                {[meeting_id |-> meeting_id, project_id |-> id, by |-> r] :
                    id \in Range(Adds(f).meeting_projects)}
          [] t = "meeting_topics" ->
                {[meeting_id |-> meeting_id, topic_id |-> id, by |-> r] :
                    id \in Range(Adds(f).meeting_topics)}
          [] t = "meeting_tasks" ->
                {[meeting_id |-> meeting_id, task_id |-> x.task_id, by |-> r] :
                    x \in Range(f.processed_tasks)}
          [] t = "task_members" ->
                UNION {{[task_id |-> x.task_id, member_id |-> a, by |-> r] :
                            a \in Range(x.assignee_ids)} :
                        x \in Range(f.processed_tasks)}
          [] OTHER -> {}]

\* lines 713-765: the flush of the Meeting returns (or raises); its id is
\* read and the relationship rows are added; the commit is awaited
MeetingFlush(r, ok) ==
    /\ run[r].pc = "meeting_flush"
    /\ StoreOp(ok)
    /\ LET f == run[r]
           meeting_id == seq.meeting
           meeting == [meeting_id |-> meeting_id,
                       meeting_name |-> f.meeting_name,
                       meeting_type |-> f.meeting_type, by |-> r]
       IN  IF ok
           THEN /\ seq' = [seq EXCEPT !.meeting = @ + 1]
                /\ run' = [run EXCEPT ![r] =
                              [f EXCEPT
                                 !.meeting_id = meeting_id,
                                 !.session =
                                     Commit(Pending(@, "meeting", {meeting}),
                                            JunctionRows(r, meeting_id, f)),
                                 !.pc = "meeting_commit"]]
                /\ UNCHANGED store
           ELSE /\ run' = [run EXCEPT ![r] = Raised(f, "StorageError")]
                /\ store' = Rollback(store, f.session)
                /\ UNCHANGED seq
    /\ UNCHANGED <<committee_members, projects, topics, bot, handler, chat>>

\* lines 765-767 and 240-255: the meeting transaction commits and
\* process_transcript returns, or the commit raises (the store refuses a
\* row, or fails) and the transaction is rolled back
MeetingCommit(r, ok) ==
    /\ run[r].pc = "meeting_commit"
    /\ StoreOp(ok)
    /\ LET f == run[r]
       IN  IF ok /\ ~IntegrityError(store, f.session, Adds(f))
           THEN /\ store' = Commit(store, f.session)
                /\ run' = [run EXCEPT ![r] = Returned(f, ResultOf(f))]
           ELSE /\ run' = [run EXCEPT ![r] = Raised(f, "StorageError")]
                /\ store' = Rollback(store, f.session)
    /\ UNCHANGED <<seq, committee_members, projects, topics, bot, handler,
                   chat>>

(***************************************************************************)
(* The completion client's timeout, and the file watcher that runs         *)
(* process_transcript in a thread of its own (file_watcher.py,             *)
(* _run_transcript_integration).                                           *)
(***************************************************************************)
\* run r waits for the completion service
Waiting(r) ==
    run[r].pc \in {"await_members_projects", "await_topics", "await_tasks",
                  "await_summary"}

\* the completion service does not answer the pending attempt of run r in
\* time and the client has retries left
ClientRetry(r) ==
    /\ Waiting(r)
    /\ run[r].attempts < MaxRetries
    /\ run' = [run EXCEPT ![r] = Retry(run[r])]
    /\ UNCHANGED <<store, seq, committee_members, projects, topics, failures,
                   bot, handler, chat>>

\* the client is out of retries
OutOfRetries(r) == Waiting(r) /\ run[r].attempts >= MaxRetries

\* the last attempt is not answered in time either: the call raises
\* APITimeoutError and _call_llm returns ""
ClientGivesUp(r) ==
    /\ OutOfRetries(r)
    /\ \/ ExtractMembersAndProjects(r, RaiseTimeout)
       \/ ExtractTopics(r, RaiseTimeout)
       \/ ExtractTasks(r, RaiseTimeout)
       \/ GenerateSummary(r, RaiseTimeout)

\* a coroutine is between its call and its end
Alive(r) == run[r].pc \notin {"idle", "Succeeded", "Failed"}

\* file_watcher.py 411-416: thread.join(timeout=300) returns while the thread
\* is alive; the watcher prints the timeout error and returns.  The thread
\* is not stopped
JoinTimeout(r) ==
    /\ run[r].reported = "nothing"
    /\ run[r].pc = "idle" \/ Alive(r)
    /\ run' = [run EXCEPT ![r].reported = "timeout"]
    /\ UNCHANGED <<store, seq, committee_members, projects, topics, failures,
                   bot, handler, chat>>

\* file_watcher.py 411-458: thread.join returns because the thread has ended;
\* the watcher reports the exception or displays the result
JoinReturns(r) ==
    /\ run[r].reported = "nothing"
    /\ run[r].pc \in {"Succeeded", "Failed"}
    /\ run' = [run EXCEPT ![r].reported =
                   IF run[r].pc = "Failed" THEN "failed" ELSE "complete"]
    /\ UNCHANGED <<store, seq, committee_members, projects, topics, failures,
                   bot, handler, chat>>

(***************************************************************************)
(* The file watcher's handler: on_created and the wizard of                *)
(* _process_new_file.  The observer delivers its events one after the      *)
(* other, so an event is handled when the handler is idle; every input()   *)
(* is one step.                                                            *)
(***************************************************************************)
\* number of creation events the environment sends
MaxEvents == 3

\* s.startswith(p)
StartsWith(s, p) == Len(s) >= Len(p) /\ SubSeq(s, 1, Len(p)) = p

\* s.rfind('.') + 1 (0: no dot)
LastDot(s) ==
    IF \A k \in 1..Len(s) : s[k] # "." THEN 0
    ELSE CHOOSE k \in 1..Len(s) :
             s[k] = "." /\ \A j \in (k + 1)..Len(s) : s[j] # "."

\* PurePath.suffix: the name from its last dot on, when that dot is neither
\* the first nor the last character
Suffix(name) ==
    IF 1 < LastDot(name) /\ LastDot(name) < Len(name)
    THEN SubSeq(name, LastDot(name), Len(name)) ELSE <<>>

TextSuffixes == {<<".", "t", "x", "t">>, <<".", "m", "d">>, <<".", "t", "e", "x", "t">>}
IngestedPrefix == <<"I", "N", "G", "E", "S", "T", "E", "D", "_">>

\* Path.relative_to(self.watch_directory).parts; raises ValueError for a
\* path that is not under the watched directory
UnderWatch(file_path) == file_path.root = "watch"
RelativeParts(file_path) == file_path.parts \o <<file_path.name>>

\* a handler that does not remember the paths it has prompted for
SkippedForgetful(file_path, processed_files) ==
    \/ StartsWith(file_path.name, <<".">>)
    \/ Lower(Suffix(file_path.name)) \notin TextSuffixes
    \/ StartsWith(file_path.name, IngestedPrefix)
    \/ ~UnderWatch(file_path)
    \/ Len(RelativeParts(file_path)) > 1

\* lines 75-97: the tests of on_created a file has to pass
Skipped(file_path, processed_files) ==
    \/ StartsWith(file_path.name, <<".">>)
    \/ Lower(Suffix(file_path.name)) \notin TextSuffixes
    \/ StartsWith(file_path.name, IngestedPrefix)
    \/ file_path \in processed_files
    \/ ~UnderWatch(file_path)
    \/ Len(RelativeParts(file_path)) > 1

\* the wizard starts (line 146) or starts over (line 192)
Restarted(h) ==
    [h EXCEPT !.pc = "meeting_type", !.meeting_type = <<>>, !.date_str = <<>>,
              !.meeting_name = <<>>, !.destination_path = NoPath]

\* _process_new_file returns: the handler waits for the next event
Left(h, outcome) == [h EXCEPT !.pc = "idle", !.outcome = outcome]

\* a wizard that copies the file before it gives up
CancelledAfterCopy(h) ==
    [Left(h, "cancelled") EXCEPT
        !.cancelled_at = h.pc,
        !.fs = @ \cup {Path("watch", <<h.meeting_type>>, h.file_path.name)}]

\* "Cancelled. File will not be processed." and return (lines 151-172)
Cancelled(h) == [Left(h, "cancelled") EXCEPT !.cancelled_at = h.pc]

\* lines 73-112: a file or folder is created and the observer calls
\* on_created, which starts the wizard for a file that passes its tests
OnCreated(event) ==
    /\ handler.pc = "idle"
    /\ handler.events < MaxEvents
    /\ LET file_path == event.src_path
           h == [handler EXCEPT !.events = @ + 1, !.outcome = "none",
                                !.cancelled_at = "none"]
       IN  handler' =
             IF event.is_directory
             THEN [h EXCEPT !.dirs = IF UnderWatch(file_path) /\ file_path.parts = <<>>
                                     THEN @ \cup {file_path.name} ELSE @]
             ELSE IF Skipped(file_path, handler.processed_files)
             THEN [h EXCEPT !.fs = @ \cup {file_path}]
             ELSE [Restarted(h) EXCEPT
                     !.fs = @ \cup {file_path},
                     !.processed_files = @ \cup {file_path},
                     !.file_path = file_path,
                     !.wizards = Append(@, file_path),
                     !.before = [fs |-> h.fs \cup {file_path}, dirs |-> h.dirs,
                                 threads |-> h.threads],
                     !.outcome = "none", !.cancelled_at = "none",
                     !.copied = FALSE, !.deleted = FALSE, !.answers = NotAsked]
    /\ UNCHANGED <<store, seq, committee_members, projects, topics, run,
                   failures, bot, chat>>

\* lines 242-261: [1/4] the meeting type
GetMeetingType(input) ==
    /\ handler.pc = "meeting_type"
    /\ LET choice == Lower(Strip(input))
       IN  handler' =
             IF choice \in CancelWords \cup {<<>>} THEN Cancelled(handler)
             ELSE IF choice \in DOMAIN WatcherMeetingTypes
             THEN [handler EXCEPT !.meeting_type = WatcherMeetingTypes[choice],
                                  !.pc = "date"]
             ELSE handler
    /\ UNCHANGED <<store, seq, committee_members, projects, topics, run,
                   failures, bot, chat>>

\* datetime.strptime(date_input, '%d-%m-%Y') raises ValueError
StrptimeDmyRaises(date_input) ==
    LET parts == Split(date_input)
    IN  IF Len(parts) # 3 THEN TRUE
        ELSE IF ~(MatchesD(parts[1]) /\ MatchesM(parts[2]) /\ MatchesY(parts[3]))
        THEN TRUE
        ELSE \/ IntOf(parts[3]) < 1
             \/ IntOf(SelectSeq(parts[1], IsDigit)) >
                    DaysIn(IntOf(parts[3]), IntOf(parts[2]))

\* lines 263-287: [2/4] the meeting date
GetDate(input) ==
    /\ handler.pc = "date"
    /\ LET date_input == Strip(input)
       IN  handler' =
             IF Lower(date_input) \in CancelWords \cup {<<>>} THEN Cancelled(handler)
             ELSE IF Lower(date_input) = <<"t", "o", "d", "a", "y">>
             THEN [handler EXCEPT !.date_str = Today, !.pc = "meeting_name"]
             ELSE IF ~StrptimeDmyRaises(date_input)
             THEN [handler EXCEPT !.date_str = date_input, !.pc = "meeting_name"]
             ELSE handler
    /\ UNCHANGED <<store, seq, committee_members, projects, topics, run,
                   failures, bot, chat>>

\* \w of re on the characters used here: letters, digits and "_"
IsWordChar(c) ==
    \/ IsDigit(c) \/ c = "_"
    \/ \E n \in 1..26 : UpperCase[n] = c \/ LowerCase[n] = c

\* re.sub(r'_+', '_', s)
RECURSIVE CollapseUnderscores(_)
CollapseUnderscores(s) ==
    IF Len(s) < 2 THEN s
    ELSE IF s[1] = "_" /\ s[2] = "_" THEN CollapseUnderscores(Tail(s))
    ELSE <<s[1]>> \o CollapseUnderscores(Tail(s))

\* s.strip('_')
RECURSIVE StripUnderscores(_)
StripUnderscores(s) ==
    IF s # <<>> /\ Head(s) = "_" THEN StripUnderscores(Tail(s))
    ELSE IF s # <<>> /\ s[Len(s)] = "_"
    THEN StripUnderscores(SubSeq(s, 1, Len(s) - 1))
    ELSE s

\* lines 308-310: blanks and every character that is neither a word
\* character nor "-" become "_", runs of "_" become one, "_" is stripped
\* from both ends, and the name is lower-cased
Cleaned(name_input) ==
    LET replaced == [k \in 1..Len(name_input) |->
                        IF name_input[k] = "-" \/ IsWordChar(name_input[k])
                        THEN name_input[k] ELSE "_"]
    IN  Lower(StripUnderscores(CollapseUnderscores(replaced)))

\* code points, in their order, of the characters folder names are written in
Ascii ==
    <<" ", "!", "-", ".", "0", "1", "2", "3", "4", "5", "6", "7", "8",
      "9", "A", "B", "C", "D", "E", "F", "G", "H", "I", "J", "K", "L",
      "M", "N", "O", "P", "Q", "R", "S", "T", "U", "V", "W", "X", "Y",
      "Z", "_", "a", "b", "c", "d", "e", "f", "g", "h", "i", "j", "k",
      "l", "m", "n", "o", "p", "q", "r", "s", "t", "u", "v", "w", "x",
      "y", "z">>
CodePoint(c) == CHOOSE n \in 1..Len(Ascii) : Ascii[n] = c

\* str ordering on names
RECURSIVE NameLess(_, _)
NameLess(s, t) ==
    IF t = <<>> THEN FALSE
    ELSE IF s = <<>> THEN TRUE
    ELSE IF Head(s) # Head(t) THEN CodePoint(Head(s)) < CodePoint(Head(t))
    ELSE NameLess(Tail(s), Tail(t))

\* sorted(names)
RECURSIVE SortedNames(_)
SortedNames(S) ==
    IF S = {} THEN <<>>
    ELSE LET least == CHOOSE x \in S : \A y \in S \ {x} : NameLess(x, y)
         IN  <<least>> \o SortedNames(S \ {least})

\* lines 324-327: the subfolders of the watched folder that are not hidden,
\* sorted
Folders(h) == SortedNames({d \in h.dirs : ~StartsWith(d, <<".">>)})

\* line 334
Suggested(h) ==
    IF h.meeting_type \in Range(Folders(h)) THEN h.meeting_type
    ELSE Folders(h)[1]

\* lines 175-176: INGESTED_{meeting_type}_{date_str}_{meeting_name}.txt under the
\* destination folder
Destination(h, destination_folder) ==
    Path("watch", <<destination_folder>>,
         IngestedPrefix \o h.meeting_type \o <<"_">> \o h.date_str \o <<"_">>
             \o h.meeting_name \o <<".", "t", "x", "t">>)

\* lines 289-316 and 318-331: [3/4] the meeting name; with a name accepted,
\* _get_destination_folder lists the subfolders and, when there is none,
\* takes the meeting type as the folder without asking
GetMeetingName(input) ==
    /\ handler.pc = "meeting_name"
    /\ LET name_input == Strip(input)
           h == [handler EXCEPT !.meeting_name = Cleaned(name_input)]
       IN  handler' =
             IF Lower(name_input) \in CancelWords \cup {<<>>} THEN Cancelled(handler)
             ELSE IF Cleaned(name_input) = <<>> THEN handler
             ELSE IF Folders(h) = <<>>
             THEN [h EXCEPT !.destination_path = Destination(h, h.meeting_type),
                            !.pc = "confirm"]
             ELSE [h EXCEPT !.pc = "destination_folder"]
    /\ UNCHANGED <<store, seq, committee_members, projects, topics, run,
                   failures, bot, chat>>

\* lines 342-360: [4/4] the destination folder
GetDestinationFolder(input) ==
    /\ handler.pc = "destination_folder"
    /\ LET choice == Strip(input)
           folders == Folders(handler)
           idx == IntOf(choice) - 1
       IN  handler' =
             IF Lower(choice) \in CancelWords THEN Cancelled(handler)
             ELSE IF choice = <<>>
             THEN [handler EXCEPT
                     !.destination_path = Destination(handler, Suggested(handler)),
                     !.pc = "confirm"]
             ELSE IF AllDigits(choice) /\ 0 <= idx /\ idx < Len(folders)
             THEN [handler EXCEPT
                     !.destination_path = Destination(handler, folders[idx + 1]),
                     !.pc = "confirm"]
             ELSE handler
    /\ UNCHANGED <<store, seq, committee_members, projects, topics, run,
                   failures, bot, chat>>

\* the answers that mean yes; the empty answer is yes where yes is the
\* default
Yes == {<<"y">>, <<"y", "e", "s">>}

\* what mkdir and copy2 of lines 195-198 do: one of them raises, or the
\* folder is there and the file is copied
CopyOutcomes == {"mkdir raises", "copy2 raises", "copied"}

\* lines 189-200: the summary is confirmed or the wizard starts over; the
\* destination folder is made and the file is copied (when mkdir or copy2
\* raises: "Error processing file" and return)
Confirm(input, outcome) ==
    /\ handler.pc = "confirm"
    /\ LET confirm == Lower(Strip(input))
           h == [handler EXCEPT !.answers.confirm = confirm]
           made == [h EXCEPT !.dirs = @ \cup {h.destination_path.parts[1]}]
       IN  handler' =
             IF confirm \notin Yes \cup {<<>>} THEN Restarted(handler)
             ELSE IF outcome = "mkdir raises" THEN Left(h, "error")
             ELSE IF outcome = "copy2 raises" THEN Left(made, "error")
             ELSE [made EXCEPT !.fs = @ \cup {h.destination_path},
                               !.copied = TRUE, !.pc = "delete_original"]
    /\ UNCHANGED <<store, seq, committee_members, projects, topics, run,
                   failures, bot, chat>>

\* a wizard that deletes the original whatever the answer
DeleteAnswersAny == Yes \cup {<<>>, <<"n">>}

\* the answers of line 204 that delete the original
DeleteAnswers == Yes

\* lines 203-209: the original is deleted when the answer is yes (unlink may
\* raise: "Error processing file" and return)
DeleteOriginal(input, ok) ==
    /\ handler.pc = "delete_original"
    /\ LET delete_original == Lower(Strip(input))
           h == [handler EXCEPT !.answers.delete_original = delete_original]
       IN  handler' =
             IF delete_original \in DeleteAnswers
             THEN IF ok
                  THEN [h EXCEPT !.fs = @ \ {h.file_path}, !.deleted = TRUE,
                                 !.pc = "run_integration"]
                  ELSE Left(h, "error")
             ELSE [h EXCEPT !.pc = "run_integration"]
    /\ UNCHANGED <<store, seq, committee_members, projects, topics, run,
                   failures, bot, chat>>

\* lines 222-230 and 362-411: the analysis is started on the copied file when
\* the answer is yes or empty: _run_transcript_integration starts a thread
\* that constructs an engine and calls process_transcript with the
\* destination path, the meeting name and the meeting type
RunIntegration(input) ==
    /\ handler.pc = "run_integration"
    /\ LET run_integration == Lower(Strip(input))
           h == [handler EXCEPT !.answers.run_integration = run_integration]
       IN  handler' =
             IF run_integration \in Yes \cup {<<>>}
             THEN Left([h EXCEPT
                          !.threads = @ \cup
                              {[transcript_path |-> h.destination_path,
                                meeting_name |-> h.meeting_name,
                                meeting_type |-> h.meeting_type]}],
                       "complete")
             ELSE Left(h, "complete")
    /\ UNCHANGED <<store, seq, committee_members, projects, topics, run,
                   failures, bot, chat>>

\* lines 236-237: Ctrl-C at any prompt, "Operation cancelled by user."
KeyboardInterrupt ==
    /\ handler.pc # "idle"
    /\ handler' = Left(handler, "interrupted")
    /\ UNCHANGED <<store, seq, committee_members, projects, topics, run,
                   failures, bot, chat>>

(***************************************************************************)
(* Construction and setup of the engine, and the bot's get_integrator      *)
(* (bot.py 387-393), which constructs and sets up the engine on its first  *)
(* call.                                                                   *)
(***************************************************************************)
\* a cache of an engine that setup() has not loaded: {}
NoCache == <<>>

\* a constructor that does not look at its environment
NewUnchecked(env) == "engine"

\* TranscriptIntegrator(), lines 88-105: raises ValueError when DATABASE_URL
\* or OPENAI_API_KEY is not set, before anything is created
New(env) ==
    IF ~env.DATABASE_URL THEN "ValueError"
    ELSE IF ~env.OPENAI_API_KEY THEN "ValueError"
    ELSE "engine"

\* bot.py 389-393 up to the first await: caller r finds no engine and
\* constructs one (the constructor raises, or the engine is stored in
\* bot.transcript_integrator and setup() is called and awaits its first
\* load), or finds an engine and returns it
GetIntegrator(r) ==
    /\ bot.caller[r] = "idle"
    /\ IF bot.transcript_integrator = "None"
       THEN IF New(bot) = "ValueError"
            THEN /\ bot' = [bot EXCEPT !.caller[r] = "ValueError"]
                 /\ UNCHANGED <<committee_members, projects, topics>>
            ELSE /\ bot' = [bot EXCEPT !.transcript_integrator = "engine",
                                       !.setups = @ + 1,
                                       !.setup = "load_committee_members",
                                       !.caller[r] = "setup"]
                 /\ committee_members' = NoCache
                 /\ projects' = NoCache
                 /\ topics' = NoCache
       ELSE /\ bot' = [bot EXCEPT !.caller[r] = "returned"]
            /\ UNCHANGED <<committee_members, projects, topics>>
    /\ UNCHANGED <<store, seq, run, failures, handler, chat>>

\* setup(), line 117: the members query returns
SetupMembers(r) ==
    /\ bot.caller[r] = "setup"
    /\ bot.setup = "load_committee_members"
    /\ committee_members' = LoadCommitteeMembers(store["committee"])
    /\ bot' = [bot EXCEPT !.setup = "load_projects"]
    /\ UNCHANGED <<store, seq, projects, topics, run, failures, handler, chat>>

\* line 118: the projects query returns
SetupProjects(r) ==
    /\ bot.caller[r] = "setup"
    /\ bot.setup = "load_projects"
    /\ projects' = LoadProjects(store["projects"])
    /\ bot' = [bot EXCEPT !.setup = "load_topics"]
    /\ UNCHANGED <<store, seq, committee_members, topics, run, failures,
                   handler, chat>>

\* lines 119-124 and bot.py 393: the topics query returns, setup() returns
\* and get_integrator returns the engine to the caller that set it up
SetupTopics(r) ==
    /\ bot.caller[r] = "setup"
    /\ bot.setup = "load_topics"
    /\ topics' = LoadTopics(store["topic"])
    /\ bot' = [bot EXCEPT !.setup = "done", !.caller[r] = "returned"]
    /\ UNCHANGED <<store, seq, committee_members, projects, run, failures,
                   handler, chat>>

(***************************************************************************)
(* Specifications.                                                         *)
(***************************************************************************)
\* the arguments of the process_transcript call of run r: any file, the
\* meeting name of the run, a meeting type of the enumeration
Calls(r) ==
    {[file |-> file, meeting_name |-> MeetingName(r), meeting_type |-> "executive"] :
        file \in Files}

\* one step of coroutine r, called with arguments from calls, the completion
\* service answering the three JSON extractions from the given texts
StepOn(r, calls, members_projects_texts, topics_texts, tasks_texts) ==
    \/ \E c \in calls : Start(r, c.file, c.meeting_name, c.meeting_type)
    \/ \E o \in Outcomes(members_projects_texts) : ExtractMembersAndProjects(r, o)
    \/ \E o \in Outcomes(topics_texts) : ExtractTopics(r, o)
    \/ \E o \in Outcomes(tasks_texts) : ExtractTasks(r, o)
    \/ \E o \in Outcomes(SummaryAnswers) : GenerateSummary(r, o)
    \/ \E ok \in BOOLEAN : TopicsFlush(r, ok)
    \/ \E ok \in BOOLEAN : TopicsCommit(r, ok)
    \/ \E ok \in BOOLEAN : TasksFlush(r, ok)
    \/ \E ok \in BOOLEAN : TasksCommit(r, ok)
    \/ \E ok \in BOOLEAN : MeetingFlush(r, ok)
    \/ \E ok \in BOOLEAN : MeetingCommit(r, ok)

\* one step of coroutine r, the tasks completion answering from tasks_texts
Step(r, tasks_texts) ==
    StepOn(r, Calls(r), MembersProjectsTexts, TopicsTexts, tasks_texts)

\* the runs overlap: the event loop resumes whichever coroutine is ready
\* (two process_transcript commands of the bot on one engine)
Next == \E r \in Runs : Step(r, TasksTexts)

Spec == Init /\ [][Next]_vars

\* the runs follow one another: a transcript is processed to its end before
\* the next one starts (integrator.py main(), one command at a time)
SeqNext ==
    \E r \in Runs :
        (\A q \in Runs \ {r} : ~Alive(q)) /\ Step(r, TasksTexts \cup MoreTasksTexts)

SeqSpec == Init /\ [][SeqNext]_vars

\* the flushes and commits of run r
StoreSteps(r) ==
    \E ok \in BOOLEAN :
        \/ TopicsFlush(r, ok) \/ TopicsCommit(r, ok)
        \/ TasksFlush(r, ok) \/ TasksCommit(r, ok)
        \/ MeetingFlush(r, ok) \/ MeetingCommit(r, ok)

\* the file watcher processes one dropped file: one process_transcript in a
\* thread, the watcher waiting for the thread with a timeout, and a
\* completion service that may leave a request unanswered
WatcherNext ==
    \/ Step(1, TasksTexts)
    \/ ClientRetry(1)
    \/ ClientGivesUp(1)
    \/ JoinTimeout(1)
    \/ JoinReturns(1)

WatcherSpec == Init /\ [][WatcherNext]_vars

\* WF_vars(ClientGivesUp(1)), with ENABLED <<ClientGivesUp(1)>>_vars written
\* out: each of its steps counts a call, so it is enabled exactly when the
\* client is out of retries
ClientGivesUpFair ==
    []<>(~OutOfRetries(1)) \/ []<><<ClientGivesUp(1)>>_vars

\* the same, with what the scheduling guarantees: the request timeout of the
\* client expires when no answer comes, and the store answers every flush
\* and commit (with success or with an error).  Nothing is assumed of the
\* completion service
WatcherLiveSpec ==
    /\ WatcherSpec
    /\ WF_vars(ClientRetry(1))
    /\ ClientGivesUpFair
    /\ WF_vars(StoreSteps(1))


\* one run on the catalog at the cutoffs
CutoffInit == InitOn(CutoffCommitteeRows, CutoffProjectRows, CutoffTopicRows)

CutoffNext ==
    StepOn(1, Calls(1), CutoffMembersProjectsTexts, CutoffTopicsTexts,
           CutoffTasksTexts)

CutoffSpec == CutoffInit /\ [][CutoffNext]_vars

\* the arguments process_transcript accepts: any file, a meeting name that
\* may be empty, a meeting type that may be outside MEETING_TYPES
AnyCalls ==
    {[file |-> file, meeting_name |-> n, meeting_type |-> t] :
        file \in Files, n \in {<<>>, MeetingName(1)}, t \in {"executive", "standup"}}

\* one call of process_transcript on the engine with any arguments, and
\* with further answers of the tasks extraction
CallNext ==
    StepOn(1, AnyCalls, MembersProjectsTexts, TopicsTexts,
           TasksTexts \cup TasksTextsOf(RepeatedAssigneeLists))

CallSpec == Init /\ [][CallNext]_vars

\* the deadlines of the tasks extraction: "2026-03-01", "2024-02-29" (a
\* leap day), "2026-3-1", "2026-03- 1", "2026-02-30", "1900-02-29", "soon",
\* "null", "", JSON null and a JSON number
Padded == <<"2", "0", "2", "6", "-", "0", "3", "-", "0", "1">>
LeapDay == <<"2", "0", "2", "4", "-", "0", "2", "-", "2", "9">>
Unpadded == <<"2", "0", "2", "6", "-", "3", "-", "1">>
BlankDay == <<"2", "0", "2", "6", "-", "0", "3", "-", " ", "1">>
NoSuchDay == <<"2", "0", "2", "6", "-", "0", "2", "-", "3", "0">>
NoLeapDay == <<"1", "9", "0", "0", "-", "0", "2", "-", "2", "9">>
NotADate == <<"s", "o", "o", "n">>
Null == <<"n", "u", "l", "l">>
DeadlineStrings ==
    {Padded, LeapDay, Unpadded, BlankDay, NoSuchDay, NoLeapDay, NotADate, Null, <<>>}
DeadlineValues == DeadlineStrings \cup {None, ANumber}

\* "tasks" lists of one task with each deadline, of one task without the
\* "deadline" key, and of a task whose deadline does not parse before one
\* whose deadline does
DeadlineLists ==
    { <<[task_name |-> <<"d">>, assigned_to |-> <<>>, deadline |-> v]>> :
          v \in DeadlineValues }
    \cup { <<[task_name |-> <<"d">>, assigned_to |-> <<>>]>>,
           <<[task_name |-> <<"d">>, assigned_to |-> <<>>, deadline |-> NotADate],
             [task_name |-> <<"e">>, assigned_to |-> <<>>, deadline |-> Padded]>> }

\* one call of process_transcript whose tasks extraction answers with the
\* deadlines above
DeadlineNext ==
    StepOn(1, Calls(1), MembersProjectsTexts, TopicsTexts,
           TasksTextsOf(DeadlineLists))

DeadlineSpec == Init /\ [][DeadlineNext]_vars

\* the creation events of the file watcher: files under the watched folder
\* with and without a transcript suffix, a hidden file, a renamed file, a
\* file in a subfolder, a file elsewhere, and a folder
EventNames == {<<"a", ".", "t", "x", "t">>, <<"b", ".", "M", "D">>, <<".", "h", ".", "t", "x", "t">>, <<"a", ".", "p", "d", "f">>, <<"I", "N", "G", "E", "S", "T", "E", "D", "_", "a", ".", "t", "x", "t">>}
Events ==
    {[is_directory |-> FALSE, src_path |-> Path("watch", <<>>, n)] : n \in EventNames}
    \cup {[is_directory |-> FALSE, src_path |-> Path("watch", <<<<"f">>>>, <<"a", ".", "t", "x", "t">>)],
          [is_directory |-> FALSE, src_path |-> Path("other", <<>>, <<"a", ".", "t", "x", "t">>)],
          [is_directory |-> TRUE, src_path |-> Path("watch", <<>>, <<"f">>)]}

\* what is typed at the prompts
TypeInputs == {<<"1">>, <<"8">>, <<"0">>, <<"Q", " ">>, <<>>}
DateInputs == {<<"T", "o", "d", "a", "y">>, <<"5", "-", "2", "-", "2", "0", "2", "6">>, <<"2", "0", "2", "6", "-", "0", "2", "-", "0", "5">>, <<"c">>, <<>>}
NameInputs == {<<"M", " ", "m">>, <<"!">>, <<"c", "a", "n", "c", "e", "l">>, <<>>}
FolderInputs == {<<>>, <<"1">>, <<"2">>, <<"3">>, <<"x">>, <<"q">>}
YesNoInputs == {<<>>, <<"Y">>, <<"n">>}

\* the observer thread of the file watcher: events and the wizard
HandlerNext ==
    \/ \E event \in Events : OnCreated(event)
    \/ \E input \in TypeInputs : GetMeetingType(input)
    \/ \E input \in DateInputs : GetDate(input)
    \/ \E input \in NameInputs : GetMeetingName(input)
    \/ \E input \in FolderInputs : GetDestinationFolder(input)
    \/ \E input \in YesNoInputs, outcome \in CopyOutcomes : Confirm(input, outcome)
    \/ \E input \in YesNoInputs, ok \in BOOLEAN : DeleteOriginal(input, ok)
    \/ \E input \in YesNoInputs : RunIntegration(input)
    \/ KeyboardInterrupt

HandlerSpec == Init /\ [][HandlerNext]_vars

\* ---- on_message and process_with_tools (discord_bot/bot.py 209-383) ----

\* max_messages of _build_messages (bot.py 212), max_iterations of
\* process_with_tools (232), the messages on_message keeps (379) and the
\* characters of a reply it sends (372)
max_messages == 12
max_iterations == 5
HistoryKept == 12
ReplyLimit == 1900

SYSTEM_PROMPT == Text("SYSTEM_PROMPT", 0)
Processed == Text("I processed your request.", 0)
Complexity ==
    Text("I ran into some complexity processing that request. Please try rephrasing.", 0)
NoResponse == Text("Sorry, I didn't get a response.", 0)
ErrorReply == Text("Sorry, I ran into an error processing your request.", 0)

Msg(role, content) == [role |-> role, content |-> content]

\* s[-k:]
LastOf(s, k) == IF Len(s) <= k THEN s ELSE SubSeq(s, Len(s) - k + 1, Len(s))

\* _build_messages(history, user_message) (bot.py 209-227)
BuildMessages(history, user_message) ==
    <<Msg("system", SYSTEM_PROMPT)>> \o LastOf(history, max_messages)
        \o <<Msg("user", user_message)>>

\* what a completion call comes back with: an exception, or a message of
\* the model with tool calls or with a content; a content is the text the
\* model wrote for the n-th message, short or longer than ReplyLimit, or
\* is empty
Response(kind, n) ==
    CASE kind = "raises" ->
             [raises |-> TRUE, tool_calls |-> 0, content |-> NoText]
      [] kind = "one tool call" ->
             [raises |-> FALSE, tool_calls |-> 1, content |-> NoText]
      [] kind = "two tool calls" ->
             [raises |-> FALSE, tool_calls |-> 2, content |-> NoText]
      [] kind = "content" ->
             [raises |-> FALSE, tool_calls |-> 0, content |-> Text("content", n)]
      [] kind = "long content" ->
             [raises |-> FALSE, tool_calls |-> 0,
              content |-> Text("long content", n)]
      [] OTHER ->
             [raises |-> FALSE, tool_calls |-> 0, content |-> Text("", 0)]

\* while iteration < max_iterations (bot.py 243), and a loop that never
\* gives up
LoopContinuesAlways(iteration) == TRUE
LoopContinues(iteration) == iteration < max_iterations

\* assistant_message.content or "I processed your request." (bot.py 302)
FinalResponse(content) ==
    IF content.of \in {"", "None"} THEN Processed ELSE content

\* the reply on_message sends and remembers (bot.py 370-373)
Reply(returned) ==
    CASE returned.of \in {"", "None"} -> NoResponse
      [] returned.of = "long content" -> Text("long content[:1900]...", returned.n)
      [] OTHER -> returned

\* a list object is alive while the dict or a running handler refers to it
Referenced(c, i) ==
    \/ \E k \in Keys : c.conversation_history[k] = i
    \/ \E h \in Handlers : c.task[h].pc # "idle" /\ c.task[h].history = i

Released(c) ==
    [c EXCEPT !.lists = [i \in Lists |->
                           IF Referenced(c, i) THEN c.lists[i] ELSE <<>>]]

\* except Exception of on_message (bot.py 361-368): the error is reported
\* and the handler returns
Errored(c, h, responses) ==
    Released([c EXCEPT
        !.task[h] = IdleTask,
        !.sent = [n |-> c.task[h].n, responses |-> responses,
                  raised |-> TRUE, returned |-> NoText,
                  reply |-> ErrorReply]])

\* process_with_tools has returned (bot.py 370-383): the pair is appended
\* to the list the handler got at 349, the last HistoryKept messages of it
\* become a new list, and that list is stored under the key
Replied(c, h, responses, returned) ==
    LET f == c.task[h]
        pair == <<Msg("user", f.text), Msg("assistant", Reply(returned))>>
        appended == c.lists[f.history] \o pair
    IN  Released([c EXCEPT
            !.lists[f.history] = appended,
            !.lists[SlicedList(f.n)] = LastOf(appended, HistoryKept),
            !.conversation_history[f.key] = SlicedList(f.n),
            !.task[h] = IdleTask,
            !.sent = [n |-> f.n, responses |-> responses, raised |-> FALSE,
                      returned |-> returned, reply |-> Reply(returned)],
            !.pairs[f.key] = @ \o pair])

\* the text of a message without the mention of the bot (bot.py 338-344)
TextOf(message, n) ==
    IF message.content = "mention" THEN Text("Hello!", 0) ELSE Text("text", n)

\* on_message up to its first completion call (bot.py 318-354, 238-254).
\* A message of a bot, one that arrives before the bot is logged in, an
\* empty one and one that does not mention the bot are not answered.
\* ToolExecutor (transcript_integrator/database_tools.py) is built at the
\* first message that needs it; built: whether its constructor returns
OnMessage(h, message, built) ==
    /\ chat.task[h].pc = "idle"
    /\ LET n == chat.arrivals + 1
           c == [chat EXCEPT !.arrivals = n]
           key == message.key
           stored == chat.conversation_history[key]
           history == IF stored = NoList THEN FreshList(n) ELSE stored
           text == TextOf(message, n)
           f == [IdleTask EXCEPT !.n = n, !.key = key, !.text = text]
       IN  chat' =
             IF \/ message.author_bot
                \/ message.user = "None"
                \/ message.content \in {"", "text"}
             THEN c
             ELSE IF chat.tool_executor = "None" /\ ~built
             THEN Errored([c EXCEPT !.task[h] = f], h, <<>>)
             ELSE [c EXCEPT
                     !.tool_executor = "executor",
                     !.task[h] = [f EXCEPT
                         !.pc = "completion",
                         !.history = history,
                         !.messages = BuildMessages(chat.lists[history], text),
                         !.iteration = 1]]
    /\ UNCHANGED <<store, seq, committee_members, projects, topics, run,
                   failures, bot, handler>>

\* the end of one pass of the loop of process_with_tools (bot.py 243-304):
\* the next completion call, or the sentence for a loop that gave up
NextIteration(c, h) ==
    LET f == c.task[h]
    IN  IF LoopContinues(f.iteration)
        THEN [c EXCEPT !.task[h].pc = "completion",
                       !.task[h].iteration = f.iteration + 1]
        ELSE Replied(c, h, f.responses, Complexity)

\* a completion call comes back (bot.py 247-302)
Completion(h, kind) ==
    /\ chat.task[h].pc = "completion"
    /\ LET f == chat.task[h]
           response == Response(kind, f.n)
           responses == Append(f.responses, kind)
       IN  chat' =
             IF response.raises
             THEN Errored(chat, h, responses)
             ELSE IF response.tool_calls > 0
             THEN [chat EXCEPT
                     !.task[h].pc = "tool",
                     !.task[h].responses = responses,
                     !.task[h].tool_calls = response.tool_calls,
                     !.task[h].messages =
                         Append(@, Msg("assistant", response.content))]
             ELSE Replied(chat, h, responses, FinalResponse(response.content))
    /\ UNCHANGED <<store, seq, committee_members, projects, topics, run,
                   failures, bot, handler>>

\* tool_executor.execute comes back for one tool call (bot.py 278-299);
\* ToolExecutor.execute is code of database_tools.py: it returns a result
\* or raises
Execute(h, returns) ==
    /\ chat.task[h].pc = "tool"
    /\ LET f == chat.task[h]
           c == [chat EXCEPT
                   !.task[h].tool_calls = @ - 1,
                   !.task[h].messages = Append(@, Msg("tool", Text("result", f.n)))]
       IN  chat' =
             IF ~returns
             THEN Errored(chat, h, f.responses)
             ELSE IF f.tool_calls > 1 THEN c
             ELSE NextIteration(c, h)
    /\ UNCHANGED <<store, seq, committee_members, projects, topics, run,
                   failures, bot, handler>>

\* the messages of the channels
Message(author_bot, user, content, key) ==
    [author_bot |-> author_bot, user |-> user, content |-> content, key |-> key]
Unanswered ==
    {Message(TRUE, "bot", "mention text", <<1, 1>>),
     Message(FALSE, "None", "mention text", <<1, 1>>),
     Message(FALSE, "bot", "", <<1, 1>>),
     Message(FALSE, "bot", "text", <<1, 1>>)}
Mentions(keys) == {Message(FALSE, "bot", "mention text", k) : k \in keys}
Greeting == Message(FALSE, "bot", "mention", <<1, 1>>)

ResponseKinds ==
    {"raises", "one tool call", "two tool calls", "content", "long content",
     "no content"}

\* handlers taken from a set, messages and responses from pools, until
\* so many messages have arrived
ChatNextOn(handlers, arrivals, messages, kinds) ==
    \E h \in handlers :
        \/ /\ chat.arrivals < arrivals
           /\ \E message \in messages, built \in BOOLEAN :
                 OnMessage(h, message, built)
        \/ \E kind \in kinds : Completion(h, kind)
        \/ \E returns \in BOOLEAN : Execute(h, returns)

\* one user, one message at a time, whatever the model answers
ToolNext ==
    ChatNextOn({1}, MaxToolMessages, Unanswered \cup Mentions({<<1, 1>>}), ResponseKinds)
ToolSpec == Init /\ [][ToolNext]_vars

\* two users, messages handled while others are
ChatNext ==
    ChatNextOn(Handlers, MaxChatMessages, Mentions(Keys),
               {"raises", "content", "one tool call"})
ChatSpec == Init /\ [][ChatNext]_vars

\* two users, one message at a time, the model answering without tools or
\* not at all
SeqChatNext ==
    ChatNextOn({1}, MaxMessages, Mentions(Keys), {"raises", "content"})
SeqChatSpec == Init /\ [][SeqChatNext]_vars

\* the bot after start-up, in any environment: no engine yet, the store
\* holding the catalog
BotInit ==
    /\ store = [t \in Tables |->
                  CASE t = "committee" -> CommitteeRows
                    [] t = "projects" -> ProjectRows
                    [] t = "topic" -> TopicRows
                    [] OTHER -> {}]
    /\ seq = [topic |-> 2, tasks |-> 1, meeting |-> 1]
    /\ committee_members = NoCache
    /\ projects = NoCache
    /\ topics = NoCache
    /\ run = [r \in Runs |-> IdleFrame]
    /\ failures = 0
    /\ \E d, k \in BOOLEAN :
          bot = [DATABASE_URL |-> d, OPENAI_API_KEY |-> k,
                 transcript_integrator |-> "None", setup |-> "not_called",
                 setups |-> 0, caller |-> [r \in Runs |-> "idle"]]
    /\ handler = NewHandler
    /\ chat = NewChat

\* what the completion service answers to the commands of the bot
BotMembersProjectsTexts == MembersProjectsTexts \ ValidButNotObject
BotTopicsTexts ==
    {ObjectText([EmptyDict EXCEPT !.keys = {"topics"},
                                  !.topics = <<[topic_name |-> <<" ", "X">>]>>])}

\* the process_transcript commands of the bot (bot.py 402-457): each gets
\* the engine from get_integrator and then calls its process_transcript;
\* the event loop resumes whichever coroutine is ready
BotNext ==
    \E r \in Runs :
        \/ GetIntegrator(r)
        \/ SetupMembers(r)
        \/ SetupProjects(r)
        \/ SetupTopics(r)
        \/ /\ bot.caller[r] = "returned"
           /\ StepOn(r, Calls(r), BotMembersProjectsTexts, BotTopicsTexts, TasksTexts)

BotSpec == BotInit /\ [][BotNext]_vars

(***************************************************************************)
(* What a reader of the committed store sees of one run.                   *)
(***************************************************************************)
\* the rows of table t that run r wrote
RowsBy(db, t, r) == {x \in db[t] : x.by = r}

\* the tables of the meeting data proper
MeetingDataTables == WrittenTables \ {"topic"}

\* the tables the meeting_stats command counts
MeetingStatsReads == {"meeting", "tasks", "topic"}

\* the Topic rows run r has created so far: committed, or flushed in its
\* open transaction
CreatedTopics(r) == RowsBy(store, "topic", r) \cup RowsBy(run[r].session, "topic", r)

\* the other run
Other(r) == CHOOSE q \in Runs : q # r

(***************************************************************************)
(* Claims.                                                                 *)
(***************************************************************************)
\* C1: all-or-nothing persistence per transcript: the Task and junction rows
\* of a run are committed only together with its Meeting row, and after a
\* run that failed none of its Meeting, Task or junction rows is in the
\* store.
C1_AllOrNothing ==
    \A r \in Runs :
        /\ (\E t \in MeetingDataTables : RowsBy(store, t, r) # {})
              => RowsBy(store, "meeting", r) # {}
        /\ run[r].pc = "Failed"
              => \A t \in MeetingDataTables : RowsBy(store, t, r) = {}

\* C2: a Topic row created by a run is committed if and only if the run's
\* Meeting row is committed.
C2_TopicWithMeeting ==
    \A r \in Runs : \A x \in CreatedTopics(r) :
        (x \in store["topic"]) <=> (RowsBy(store, "meeting", r) # {})

\* C3: whenever a reader of the committed store can be scheduled (any state:
\* the actions are cut at the awaits), it sees of each run either no row or,
\* the run having committed everything, all its rows.
C3_NoHalfWritten ==
    \A r \in Runs :
        \/ \A t \in MeetingStatsReads : RowsBy(store, t, r) = {}
        \/ run[r].pc = "Succeeded"

\* C4: when _insert_into_database fails after the Meeting row was flushed,
\* no Meeting row with the run's meeting name is in the store; nor is one
\* visible while the transaction is open.
C4_MeetingRolledBack ==
    \A r \in Runs :
        run[r].pc \in {"meeting_commit", "Failed"}
            => ~\E m \in store["meeting"] : m.meeting_name = MeetingName(r)

\* C4 witness: run 1 failed at the commit that follows its Meeting flush (the
\* only Meeting id ever drawn is its own) and the store has no Meeting row.
C4_Witness ==
    /\ run[1].pc = "Failed" /\ run[1].error = "StorageError"
    /\ run[2].pc = "idle"
    /\ seq.meeting = 2
    /\ store["meeting"] = {}

\* C5: at most one Topic row is ever created for one lower-cased name, and
\* all runs link a name to the same topic id, also when the runs overlap.
C5_NoTopicRace ==
    /\ \A r1, r2 \in Runs : \A x \in CreatedTopics(r1), y \in CreatedTopics(r2) :
          Lower(x.topic_name) = Lower(y.topic_name) => x.topic_id = y.topic_id
    /\ \A r1, r2 \in Runs :
          \A x \in Range(run[r1].processed_topics), y \in Range(run[r2].processed_topics) :
              Lower(x.topic_name) = Lower(y.topic_name) => x.topic_id = y.topic_id

\* C6: after a successful run, every Topic row the run inserted is in the
\* topics cache under its lower-cased name, with the row's id.
C6_CacheAgreesWithStore ==
    \A r \in Runs :
        run[r].pc = "Succeeded" =>
            \A x \in RowsBy(store, "topic", r) :
                /\ Lower(x.topic_name) \in DOMAIN topics
                /\ topics[Lower(x.topic_name)].id = x.topic_id


\* C7: when the runs follow one another, entries whose names are equal after
\* trimming and lower-casing create at most one Topic row, within one
\* _process_topics call and across calls, and every occurrence carries the
\* id cached for the name by the first.
C7_TopicIdempotent ==
    /\ \A x, y \in store["topic"] \cup UNION {CreatedTopics(r) : r \in Runs} :
          Lower(Strip(x.topic_name)) = Lower(Strip(y.topic_name)) => x = y
    /\ \A r \in Runs : \A e \in Range(run[r].processed_topics) :
          /\ Lower(e.topic_name) \in DOMAIN topics
          /\ topics[Lower(e.topic_name)].id = e.topic_id

\* C7 witness: run 1 created one Topic for "x" and succeeded; run 2, after
\* it, was given the two spellings "x" and " X", created nothing and holds
\* the id of that row twice.
C7_Witness ==
    /\ run[1].pc = "Succeeded" /\ run[1].result.new_topics_created = 1
    /\ Len(run[2].topics_data) = 2
    /\ run[2].topics_data[1].topic_name # run[2].topics_data[2].topic_name
    /\ run[2].new_topics_count = 0
    /\ Len(run[2].processed_topics) = 2
    /\ \A e \in Range(run[2].processed_topics) :
          \E x \in RowsBy(store, "topic", 1) : x.topic_id = e.topic_id

\* C8: a run whose meeting transaction fails ends in Failed with the storage
\* error and no result; a result is returned only with the Meeting row
\* committed.  (After its four calls a run fails on a storage error, or on an
\* AttributeError of the resolve stage.)
C8_PersistenceFailureFatal ==
    \A r \in Runs :
        /\ run[r].result.success
              => /\ run[r].pc = "Succeeded"
                 /\ \E m \in RowsBy(store, "meeting", r) :
                       m.meeting_id = run[r].result.meeting_id
        /\ run[r].pc = "Failed"
              => /\ ~run[r].result.success
                 /\ run[r].error \in {"ValueError", "StorageError", "AttributeError"}
        /\ (run[r].pc = "Failed" /\ run[r].llm_calls = 4)
              => run[r].error \in {"StorageError", "AttributeError"}

\* C8 witness: a run that had committed its task failed in the meeting
\* transaction (a Meeting id was drawn, by it alone) and has no result.
C8_Witness ==
    \E r \in Runs :
        /\ run[r].pc = "Failed" /\ run[r].error = "StorageError"
        /\ ~run[r].result.success
        /\ run[Other(r)].pc = "idle"
        /\ seq.meeting > 1
        /\ RowsBy(store, "tasks", r) # {}
        /\ RowsBy(store, "meeting", r) = {}

\* C9: a run on an unreadable file fails in its first step, before any
\* completion call, store write or change of the topic cache, and stays so.
C9_UnreadableFailsFirst ==
    /\ [][\A r \in Runs :
            (run[r].pc = "idle" /\ run'[r].pc # "idle" /\ ~run'[r].file.readable)
                => /\ run'[r].pc = "Failed" /\ run'[r].error = "ValueError"
                   /\ run'[r].llm_calls = 0
                   /\ store' = store /\ seq' = seq /\ topics' = topics]_vars
    /\ [](\A r \in Runs :
            (run[r].pc # "idle" /\ ~run[r].file.readable)
                => /\ run[r].pc = "Failed"
                   /\ run[r].llm_calls = 0
                   /\ run[r].session = EmptySession
                   /\ \A t \in WrittenTables : RowsBy(store, t, r) = {})

\* C9 witness: a run has failed on an unreadable file.
C9_Witness ==
    \E r \in Runs :
        /\ run[r].pc = "Failed" /\ run[r].error = "ValueError"
        /\ ~run[r].file.readable

\* the four extraction operations
Operations == {"members_projects", "topics", "tasks", "summary"}

\* C10: an extraction whose completion call raised has an empty result, the
\* step on which it raised changes no other extraction result and does not
\* end the run with the error of the call (the resolution that follows the
\* summary call without an await can end it with an AttributeError, on an
\* earlier answer that is not the structure asked for), a run with a raised
\* call fails only on a storage error or on such an AttributeError, and a
\* run that succeeded has its Meeting row.
C10_ExtractionDegrades ==
    /\ [](\A r \in Runs :
            /\ Alive(r) =>
                  /\ "members_projects" \in run[r].degraded
                        => /\ run[r].members_projects = EmptyDict
                           /\ run[r].matched_members = <<>>
                           /\ run[r].matched_projects = <<>>
                  /\ "topics" \in run[r].degraded => run[r].topics_data = <<>>
                  /\ "tasks" \in run[r].degraded => run[r].tasks_data = <<>>
                  /\ "summary" \in run[r].degraded => run[r].summary = <<>>
            /\ (run[r].pc = "Failed" /\ run[r].degraded # {})
                  => run[r].error \in {"StorageError", "AttributeError"}
            /\ run[r].pc = "Succeeded"
                  => \E m \in RowsBy(store, "meeting", r) :
                        m.meeting_id = run[r].result.meeting_id)
    /\ [][\A r \in Runs :
            run'[r].degraded # run[r].degraded
                => /\ Alive(r)
                   /\ run'[r].pc # run[r].pc
                   /\ run'[r].pc # "Succeeded"
                   /\ run'[r].pc = "Failed"
                         => /\ run[r].pc = "await_summary"
                            /\ run'[r].error = "AttributeError"
                   /\ Alive(r)' =>
                         /\ "members_projects" \in run[r].degraded
                               \/ run[r].pc = "await_members_projects"
                               \/ run'[r].members_projects = run[r].members_projects
                         /\ run[r].pc = "await_topics"
                               \/ run'[r].topics_data = run[r].topics_data
                         /\ run[r].pc = "await_tasks"
                               \/ run'[r].tasks_data = run[r].tasks_data
                         /\ run[r].pc = "await_summary"
                               \/ run'[r].summary = run[r].summary]_vars

\* C10 witness: a run all four of whose completion calls raised has
\* succeeded, with a Meeting row and empty counts.
C10_Witness ==
    \E r \in Runs :
        /\ run[r].pc = "Succeeded"
        /\ run[r].degraded = Operations
        /\ run[r].result.members_identified = 0
        /\ run[r].result.topics_linked = 0
        /\ run[r].result.tasks_created = 0
        /\ run[r].result.summary_length = 0
        /\ RowsBy(store, "meeting", r) # {}

\* the awaits of the three JSON extraction operations
JsonExtractions == {"await_members_projects", "await_topics", "await_tasks"}

\* C11: whatever text a JSON extraction operation is answered with, the
\* operation returns (the run is not ended by its step) and what it returns
\* is a dict or a list of entries: the empty one when the text is not the
\* structure asked for.
C11_ParseFailureDegrades ==
    /\ [][\A r \in Runs :
            run[r].pc \in JsonExtractions => run'[r].pc # "Failed"]_vars
    /\ [](\A r \in Runs : Alive(r) => IsDict(run[r].members_projects))

\* the positions of a run from which its next step runs code of the resolve
\* stage (lines 222-226): the matching that follows the summary, and the
\* awaits of _process_topics and _process_tasks
ResolveStage ==
    {"await_summary", "topics_flush", "topics_commit", "tasks_flush", "tasks_commit"}

\* C12: no step of the resolve stage ends the run: whatever the extraction
\* results and whatever the outcome of the flushes and commits of
\* _process_topics and _process_tasks, the run goes on towards the persist
\* stage.
C12_ResolutionNeverFails ==
    [][\A r \in Runs :
          run[r].pc \in ResolveStage => run'[r].pc # "Failed"]_vars

\* the positions of a run in the extract stage and in the persist stage
ExtractStage == JsonExtractions \cup {"await_summary"}
PersistStage == {"meeting_flush", "meeting_commit"}

\* the tasks of a tasks_data list that have a name
NamedTasks(tasks_data) ==
    {k \in 1..Len(tasks_data) : Strip(tasks_data[k].task_name) # <<>>}

\* C13: within one run, the stages follow one another: a run past its
\* extract stage has made its four completion calls and has not started
\* resolving before; a run in its persist stage has finished resolving
\* (every topic and task it created is committed, nothing of them is
\* pending); a run is Succeeded only with its meeting transaction committed;
\* and a step moves a run forward by one stage only.
C13_StageOrdering ==
    /\ [](\A r \in Runs :
            /\ run[r].pc \in ExtractStage
                  => /\ run[r].matched_members = <<>>
                     /\ run[r].matched_projects = <<>>
                     /\ run[r].processed_topics = <<>>
                     /\ run[r].processed_tasks = <<>>
                     /\ run[r].session = EmptySession
            /\ run[r].pc \in (ResolveStage \ ExtractStage) \cup PersistStage
                  => run[r].llm_calls = 4
            /\ run[r].pc \in PersistStage
                  => /\ run[r].session["topic"] = {} /\ run[r].session["tasks"] = {}
                     /\ Len(run[r].processed_tasks)
                            = Cardinality(NamedTasks(run[r].tasks_data))
                     /\ run[r].new_topics_count
                            = Cardinality(RowsBy(store, "topic", r))
                     /\ \A x \in Range(run[r].processed_tasks) :
                            \E t \in RowsBy(store, "tasks", r) : t.task_id = x.task_id
                     /\ RowsBy(store, "meeting", r) = {}
            /\ run[r].pc = "Succeeded"
                  => /\ run[r].llm_calls = 4
                     /\ \E m \in RowsBy(store, "meeting", r) :
                            m.meeting_id = run[r].result.meeting_id)
    /\ [][\A r \in Runs :
            /\ (run[r].pc \in ExtractStage
                   /\ run'[r].pc \notin ExtractStage \cup {"Failed"})
                  => /\ run[r].pc = "await_summary"
                     /\ run'[r].pc \in ResolveStage
            /\ (run[r].pc \notin PersistStage /\ run'[r].pc \in PersistStage)
                  => run[r].pc = "tasks_commit" /\ run'[r].pc = "meeting_flush"
            /\ (run[r].pc # "Succeeded" /\ run'[r].pc = "Succeeded")
                  => /\ run[r].pc = "meeting_commit"
                     /\ RowsBy(store, "meeting", r) = {}
                     /\ RowsBy(store', "meeting", r) # {}]_vars

\* C13 witness: a run that created a topic and a task has gone through all
\* stages to Succeeded.
C13_Witness ==
    \E r \in Runs :
        /\ run[r].pc = "Succeeded"
        /\ run[r].llm_calls = 4
        /\ run[r].result.new_topics_created > 0
        /\ run[r].result.tasks_created > 0
        /\ RowsBy(store, "meeting_topics", r) # {}
        /\ RowsBy(store, "meeting_tasks", r) # {}

\* C14: once the file watcher has reported the timeout of a run, the run
\* commits no further Topic, Task, Meeting or junction row.
C14_TimeoutIsFailed ==
    [][\A r \in Runs :
          run[r].reported = "timeout"
              => \A t \in WrittenTables : RowsBy(store', t, r) = RowsBy(store, t, r)]_vars

C16_OneMeetingPerSuccess ==
    /\ [](\A r \in Runs :
            /\ Cardinality(RowsBy(store, "meeting", r))
                   = IF run[r].pc = "Succeeded" THEN 1 ELSE 0
            /\ run[r].pc = "Succeeded"
                   => \A m \in RowsBy(store, "meeting", r) :
                         /\ m.meeting_id = run[r].result.meeting_id
                         /\ m.meeting_name = MeetingName(r))
    /\ [](Cardinality(store["meeting"])
             = Cardinality({r \in Runs : run[r].result.success}))
    /\ [](\A m1, m2 \in store["meeting"] : m1.meeting_id = m2.meeting_id => m1 = m2)
    /\ [][\A t \in MeetingDataTables : store[t] \subseteq store'[t]]_vars

\* C16 witness: one run has succeeded and the other has failed after a
\* Meeting id was drawn for it: the store holds one Meeting row.
C16_Witness ==
    \E r \in Runs :
        /\ run[r].pc = "Succeeded"
        /\ run[Other(r)].pc = "Failed" /\ run[Other(r)].error = "StorageError"
        /\ seq.meeting = 3
        /\ Cardinality(store["meeting"]) = 1

\* the position among the indices S of index k: 1 for the least
RankIn(S, k) == Cardinality({j \in S : j <= k})

\* all Task rows there are: committed, or flushed in an open transaction
AllTaskRows == store["tasks"] \cup UNION {run[r].session["tasks"] : r \in Runs}

\* C17: every extracted task with a name gets a Task row of its own with an
\* id no other Task row has, whatever Task rows of that name exist: a run
\* in its persist stage has as many Task rows as its extraction has named
\* tasks, in extraction order, and the flush of a task adds one row with a
\* fresh id.
C17_TasksNeverReused ==
    /\ [](\A x, y \in AllTaskRows : x.task_id = y.task_id => x = y)
    /\ [](\A r \in Runs :
            run[r].pc \in PersistStage =>
               /\ Cardinality(RowsBy(store, "tasks", r))
                      = Cardinality(NamedTasks(run[r].tasks_data))
               /\ Len(run[r].processed_tasks)
                      = Cardinality(NamedTasks(run[r].tasks_data))
               /\ \A k \in NamedTasks(run[r].tasks_data) :
                      LET e == run[r].processed_tasks[
                                   RankIn(NamedTasks(run[r].tasks_data), k)]
                      IN  /\ e.task_name = Strip(run[r].tasks_data[k].task_name)
                          /\ \E t \in RowsBy(store, "tasks", r) :
                                 t.task_id = e.task_id /\ t.task_name = e.task_name
               /\ \A j, k \in 1..Len(run[r].processed_tasks) :
                      j # k => run[r].processed_tasks[j].task_id
                                  # run[r].processed_tasks[k].task_id)
    /\ [][\A r \in Runs :
            (run[r].pc = "tasks_flush" /\ Alive(r)')
                => \E t \in run'[r].session["tasks"] :
                      /\ run'[r].session["tasks"] = run[r].session["tasks"] \cup {t}
                      /\ t.task_id \notin {x.task_id : x \in AllTaskRows}
                      /\ t.task_name = Strip(run[r].tasks_data[run[r].i].task_name)]_vars

\* C17 witness: the store holds three Task rows of one name, two of them
\* of the same run and one of a run that followed it.
C17_Witness ==
    \E x, y, z \in store["tasks"] :
        /\ x.task_name = y.task_name /\ y.task_name = z.task_name
        /\ x.by = y.by /\ x.task_id # y.task_id
        /\ z.by # x.by
        /\ \A r \in Runs : run[r].pc = "Succeeded"

\* the ids of the members the names of an assigned_to list resolve to
ResolvedAssignees(assigned_to) ==
    {committee_members[key].id :
        key \in UNION {ResolveKey(assigned_to[j], committee_members, AssigneeCutoff) :
                          j \in 1..Len(assigned_to)}}

\* C18: when a run succeeds, each of its named tasks, whether or not any of
\* its assignee names resolved, has its Task row and exactly one
\* meeting-task row, and its task-member rows are those of the assignees
\* that resolved: none when assigned_to is empty or no name resolves, and
\* the resolved ones when another name of the list does not resolve.
C18_TaskWithoutAssignees ==
    [][\A r \in Runs :
          (run[r].pc = "meeting_commit" /\ run'[r].pc = "Succeeded") =>
             LET named == NamedTasks(run[r].tasks_data)
             IN  /\ run'[r].result.tasks_created = Cardinality(named)
                 /\ Cardinality(RowsBy(store', "meeting_tasks", r)) = Cardinality(named)
                 /\ \A k \in named :
                        LET e == run[r].processed_tasks[RankIn(named, k)]
                            assignees ==
                                ResolvedAssignees(run[r].tasks_data[k].assigned_to)
                        IN  /\ \E t \in store'["tasks"] : t.task_id = e.task_id
                            /\ {j \in store'["meeting_tasks"] : j.task_id = e.task_id}
                                  = {[meeting_id |-> run'[r].result.meeting_id,
                                      task_id |-> e.task_id, by |-> r]}
                            /\ {j.member_id : j \in {x \in store'["task_members"] :
                                                        x.task_id = e.task_id}}
                                  = assignees]_vars

\* C18 witness: a run has succeeded with a task that has an assignee and a
\* task that has none, the other with a task whose only assignee name did
\* not resolve: three Task rows, three meeting-task rows, one task-member
\* row.
C18_Witness ==
    /\ \A r \in Runs : run[r].pc = "Succeeded"
    /\ \E r \in Runs :
          /\ run[r].result.tasks_created = 2
          /\ Cardinality(RowsBy(store, "task_members", r)) = 1
          /\ run[Other(r)].result.tasks_created = 1
          /\ run[Other(r)].result.task_names = << <<"d">> >>
          /\ RowsBy(store, "task_members", Other(r)) = {}
          /\ Cardinality(RowsBy(store, "meeting_tasks", Other(r))) = 1
    /\ Cardinality(store["tasks"]) = 3
    /\ Cardinality(store["meeting_tasks"]) = 3

\* the entries of a list of names that resolve in a catalog
Resolved(names, catalog, cutoff) ==
    {k \in 1..Len(names) : ResolveKey(names[k], catalog, cutoff) # {}}

\* matched holds the records of exactly the names that resolve, in the
\* order of the names
KeepsResolved(names, matched, catalog, cutoff) ==
    LET kept == Resolved(names, catalog, cutoff)
    IN  /\ Len(matched) = Cardinality(kept)
        /\ \A k \in kept :
               \E key \in ResolveKey(names[k], catalog, cutoff) :
                  matched[RankIn(kept, k)] = catalog[key]

\* a run has resolved its members and projects and still holds its locals
HasMatched(r) == run[r].pc \in (ResolveStage \ ExtractStage) \cup PersistStage

\* C19: the matched members (projects) of a run are, from the step that
\* matches them on, the records of exactly the extracted names that
\* resolve, in extraction order; the result gives
\* their names and their count; and the step that resolves them does not
\* end the run because a name did not resolve.
C19_UnresolvedDropped ==
    /\ [][\A r \in Runs : (run[r].pc = "await_summary" /\ HasMatched(r)') =>
            /\ KeepsResolved(Get(run[r].members_projects, "member_names", <<>>),
                             run'[r].matched_members, committee_members, MemberCutoff)
            /\ KeepsResolved(Get(run[r].members_projects, "project_names", <<>>),
                             run'[r].matched_projects, projects, ProjectCutoff)]_vars
    /\ [][\A r \in Runs : (HasMatched(r) /\ HasMatched(r)') =>
            /\ run'[r].matched_members = run[r].matched_members
            /\ run'[r].matched_projects = run[r].matched_projects
            /\ run'[r].members_projects = run[r].members_projects]_vars
    /\ [][\A r \in Runs :
            (run[r].pc = "meeting_commit" /\ run'[r].pc = "Succeeded") =>
                /\ run'[r].result.member_names = Names(run[r].matched_members)
                /\ run'[r].result.members_identified = Len(run[r].matched_members)
                /\ run'[r].result.project_names = Names(run[r].matched_projects)
                /\ run'[r].result.projects_linked = Len(run[r].matched_projects)]_vars
    /\ [][\A r \in Runs :
            (/\ run[r].pc = "await_summary"
             /\ IsDict(run[r].members_projects)
             /\ \A k \in 1..Len(run[r].topics_data) :
                    run[r].topics_data[k].topic_name # None
             /\ run'[r].pc # "await_summary")
                => HasMatched(r)']_vars

\* C19 witness: of the four member names and three project names
\* extracted, three and two resolved (two member names to the same member,
\* the project names to the same project); the run succeeded and its result
\* lists them in extraction order.
C19_Witness ==
    \E r \in Runs :
        /\ run[r].pc = "Succeeded"
        /\ run[r].result.member_names
              = << <<"X", "y">>, <<"A", "b">>, <<"X", "y">> >>
        /\ run[r].result.members_identified = 3
        /\ run[r].result.project_names
              = << <<"a", "b", "c", "d">>, <<"a", "b", "c", "d">> >>
        /\ run[r].result.projects_linked = 2

\* the name whose lower-cased form is a key of the catalog has its record
\* in matched, at the place of the name
ExactUsed(names, matched, catalog, cutoff) ==
    LET kept == Resolved(names, catalog, cutoff)
    IN  \A k \in 1..Len(names) :
           Lower(names[k]) \in DOMAIN catalog
               => /\ k \in kept
                  /\ matched[RankIn(kept, k)] = catalog[Lower(names[k])]

\* the entries of topics_data from i0 to i1 that have a name
NamedTopics(topics_data, i0, i1) ==
    {k \in i0..i1 :
        /\ topics_data[k].topic_name # None
        /\ Strip(topics_data[k].topic_name) # <<>>}

\* C20: a name whose lower-cased form is a key of the catalog resolves to
\* the record under that key: for the member and project names when they
\* are matched, for every topic entry the loop of _process_topics passes
\* (against the topic cache as it is then), and for the assignee names of a
\* task when it is about to be created.
C20_ExactMatchAuthoritative ==
    /\ [][\A r \in Runs : (run[r].pc = "await_summary" /\ HasMatched(r)') =>
            /\ ExactUsed(Get(run[r].members_projects, "member_names", <<>>),
                         run'[r].matched_members, committee_members, MemberCutoff)
            /\ ExactUsed(Get(run[r].members_projects, "project_names", <<>>),
                         run'[r].matched_projects, projects, ProjectCutoff)]_vars
    /\ [][\A r \in Runs :
            (/\ run[r].pc \in {"await_summary", "topics_flush"}
             /\ run'[r].pc \in {"topics_flush", "topics_commit"}
             /\ run'[r] # run[r]) =>
                LET data == run'[r].topics_data
                    i0 == IF run[r].pc = "await_summary" THEN 1 ELSE run[r].i
                    passed == NamedTopics(data, i0, run'[r].i - 1)
                    base == Len(run[r].processed_topics)
                IN  \A k \in passed :
                       LET key == Lower(Strip(data[k].topic_name))
                       IN  key \in DOMAIN topics'
                              => run'[r].processed_topics[base + RankIn(passed, k)]
                                    = [topic_id |-> topics'[key].id,
                                       topic_name |-> topics'[key].name]]_vars
    /\ [][\A r \in Runs :
            (run[r].pc # "tasks_flush" /\ run'[r].pc = "tasks_flush") =>
                LET assigned_to == run'[r].tasks_data[run'[r].i].assigned_to
                    kept == Resolved(assigned_to, committee_members, AssigneeCutoff)
                IN  \A j \in 1..Len(assigned_to) :
                       Lower(assigned_to[j]) \in DOMAIN committee_members
                           => /\ j \in kept
                              /\ run'[r].new_task.assignee_ids[RankIn(kept, j)]
                                    = committee_members[Lower(assigned_to[j])].id]_vars

\* C20 witness: a run has matched the member names "xy", "Ab" and "XY" and
\* the project name "ABcd" by their keys, has created the topic "X" and then
\* matched the spelling " X" by the key "x", and has matched the assignee
\* "ab" by its key.
C20_Witness ==
    \E r \in Runs :
        /\ run[r].pc = "meeting_flush"
        /\ Ids(run[r].matched_members) = <<2, 1, 2>>
        /\ Ids(run[r].matched_projects) = <<1, 1>>
        /\ Len(run[r].topics_data) = 2
        /\ run[r].new_topics_count = 1
        /\ Len(run[r].processed_topics) = 2
        /\ run[r].processed_topics[1] = run[r].processed_topics[2]
        /\ Len(run[r].processed_tasks) = 1
        /\ run[r].processed_tasks[1].assignee_ids = <<1>>

\* the ratio of each catalog key to a lower-cased name
Scores(key, catalog) == [x \in DOMAIN catalog |-> Ratio(x, key)]

\* the keys no other key scores higher than
Best(score) ==
    {x \in DOMAIN score : \A y \in DOMAIN score : ~RatioLess(score[x], score[y])}

BestKeys(key, catalog) == Best(Scores(key, catalog))

\* some catalog key scores at least the cutoff (in hundredths)
CloseEnough(key, catalog, cutoff) ==
    LET score == Scores(key, catalog)
    IN  \E x \in DOMAIN score : RatioAtLeast(score[x], cutoff)

\* the names that are a key of the catalog or close enough to one
Accepted(names, catalog, cutoff) ==
    {k \in 1..Len(names) :
        \/ Lower(names[k]) \in DOMAIN catalog
        \/ CloseEnough(Lower(names[k]), catalog, cutoff)}

\* matched holds, for each accepted name and in their order, a record of the
\* catalog; for a name that is not a key, a record under a best-scoring key
AcceptedAtCutoff(names, matched, catalog, cutoff) ==
    LET kept == Accepted(names, catalog, cutoff)
    IN  /\ Len(matched) = Cardinality(kept)
        /\ \A k \in kept :
               Lower(names[k]) \notin DOMAIN catalog
                   => \E x \in BestKeys(Lower(names[k]), catalog) :
                         matched[RankIn(kept, k)] = catalog[x]

\* C21: a member name that is not a key of the members cache resolves, to a
\* member whose key has the highest ratio, exactly when that ratio is at
\* least 0.7.  A topic entry that is not a key of the topics cache is
\* linked to a topic whose key has the highest ratio when that ratio is at
\* least 0.7, and otherwise the loop stops at it and a Topic row of its name
\* is added to the session.
C21_CutoffMembersTopics ==
    /\ [][\A r \in Runs : (run[r].pc = "await_summary" /\ HasMatched(r)') =>
            AcceptedAtCutoff(Get(run[r].members_projects, "member_names", <<>>),
                             run'[r].matched_members, committee_members, 70)]_vars
    /\ [][\A r \in Runs :
            (/\ run[r].pc \in {"await_summary", "topics_flush"}
             /\ run'[r].pc \in {"topics_flush", "topics_commit"}
             /\ run'[r] # run[r]) =>
                LET data == run'[r].topics_data
                    i0 == IF run[r].pc = "await_summary" THEN 1 ELSE run[r].i + 1
                    stop == run'[r].i
                    passed == NamedTopics(data, i0, stop - 1)
                    base == Len(run'[r].processed_topics) - Cardinality(passed)
                IN  /\ \A k \in passed :
                           LET key == Lower(Strip(data[k].topic_name))
                           IN  key \notin DOMAIN topics'
                                  => /\ CloseEnough(key, topics', 70)
                                     /\ \E x \in BestKeys(key, topics') :
                                           run'[r].processed_topics[base + RankIn(passed, k)]
                                              = [topic_id |-> topics'[x].id,
                                                 topic_name |-> topics'[x].name]
                    /\ run'[r].pc = "topics_flush"
                           => LET key == Lower(Strip(data[stop].topic_name))
                              IN  /\ key \notin DOMAIN topics'
                                  /\ ~CloseEnough(key, topics', 70)]_vars
    /\ [][\A r \in Runs :
            (run[r].pc = "topics_flush" /\ Alive(r)') =>
                /\ \E t \in run'[r].session["topic"] :
                       t.topic_name = Strip(run[r].topics_data[run[r].i].topic_name)
                /\ run'[r].new_topics_count = run[r].new_topics_count + 1]_vars

\* C21 witness: the member name at ratio 0.7 has resolved to the member of
\* the 13-character key, the topic name at ratio 16/23 has become a new
\* Topic of the run.
C21_Witness ==
    /\ run[1].pc = "meeting_flush"
    /\ run[1].members_projects.member_names = <<Rep("a", 7)>>
    /\ Ids(run[1].matched_members) = <<1>>
    /\ run[1].topics_data = <<[topic_name |-> Rep("a", 8) \o Rep("z", 2)]>>
    /\ run[1].new_topics_count = 1
    /\ \E t \in store["topic"] : t.topic_name = Rep("a", 8) \o Rep("z", 2)

\* the names of a list that are no key of the catalog and whose best ratio
\* to a key is 0.65 = 13/20
AtSixtyFive(names, catalog) ==
    {k \in 1..Len(names) :
        /\ Lower(names[k]) \notin DOMAIN catalog
        /\ LET score == Scores(Lower(names[k]), catalog)
           IN  \E x \in Best(score) : score[x][1] * 20 = 13 * score[x][2]}

\* the stripped names of the topic entries, blank for an entry without a
\* name
TopicNames(topics_data) ==
    [k \in 1..Len(topics_data) |->
        IF topics_data[k].topic_name = None THEN <<>>
        ELSE Strip(topics_data[k].topic_name)]

\* C22: a project name whose best ratio to a key of the projects cache is
\* 0.65 resolves to the project of a best key; a member name or an assignee
\* name at 0.65 adds nothing to the matched members or to the assignees of
\* the task, and the loop of _process_topics never passes a topic entry at
\* 0.65 as matched (it stops at it to create a Topic).
C22_ProjectsLooserCutoff ==
    /\ [][\A r \in Runs : (run[r].pc = "await_summary" /\ HasMatched(r)') =>
            LET p_names == Get(run[r].members_projects, "project_names", <<>>)
                m_names == Get(run[r].members_projects, "member_names", <<>>)
            IN  /\ Len(run'[r].matched_projects)
                      = Cardinality(Accepted(p_names, projects, 60))
                /\ \A k \in AtSixtyFive(p_names, projects) :
                       \E x \in BestKeys(Lower(p_names[k]), projects) :
                          run'[r].matched_projects[RankIn(Accepted(p_names, projects, 60), k)]
                             = projects[x]
                /\ Len(run'[r].matched_members)
                      = Cardinality(Accepted(m_names, committee_members, 70)
                                       \ AtSixtyFive(m_names, committee_members))]_vars
    /\ [][\A r \in Runs :
            (/\ run[r].pc \in {"await_summary", "topics_flush"}
             /\ run'[r].pc \in {"topics_flush", "topics_commit"}
             /\ run'[r] # run[r]) =>
                LET t_names == TopicNames(run'[r].topics_data)
                    i0 == IF run[r].pc = "await_summary" THEN 1 ELSE run[r].i + 1
                IN  \A k \in AtSixtyFive(t_names, topics') :
                       k \notin i0..(run'[r].i - 1)]_vars
    /\ [][\A r \in Runs :
            (run[r].pc # "tasks_flush" /\ run'[r].pc = "tasks_flush") =>
                LET assigned_to == run'[r].tasks_data[run'[r].i].assigned_to
                IN  Len(run'[r].new_task.assignee_ids)
                       = Cardinality(Accepted(assigned_to, committee_members, 70)
                                        \ AtSixtyFive(assigned_to, committee_members))]_vars

\* C22 witness: the name at ratio 0.65 was extracted as member, project,
\* topic and assignee; the run has matched the project only and has
\* created a Topic of that name.
C22_Witness ==
    LET n == Rep("a", 13) \o Rep("z", 14)
    IN  /\ run[1].pc = "meeting_flush"
        /\ run[1].members_projects.member_names = <<n>>
        /\ run[1].members_projects.project_names = <<n>>
        /\ run[1].matched_members = <<>>
        /\ Ids(run[1].matched_projects) = <<1>>
        /\ run[1].topics_data = <<[topic_name |-> n]>>
        /\ run[1].new_topics_count = 1
        /\ Len(run[1].processed_tasks) = 1
        /\ run[1].tasks_data[1].assigned_to = <<n>>
        /\ run[1].processed_tasks[1].assignee_ids = <<>>

\* the relationship tables of a Meeting that are filled from id sets
MeetingLinkTables == {"meeting_members", "meeting_projects", "meeting_topics"}

\* the id a relationship row of table t links the meeting with
LinkedId(t, j) ==
    CASE t = "meeting_members" -> j.member_id
      [] t = "meeting_projects" -> j.project_id
      [] t = "meeting_topics" -> j.topic_id

\* the ids the run has resolved for table t, with their repetitions
ResolvedIds(t, f) ==
    CASE t = "meeting_members" -> Ids(f.matched_members)
      [] t = "meeting_projects" -> Ids(f.matched_projects)
      [] t = "meeting_topics" ->
            [k \in 1..Len(f.processed_topics) |-> f.processed_topics[k].topic_id]

\* a relationship row of the session names a Topic that is neither
\* committed nor pending in the session
MissingTopic(db, session) ==
    \E j \in session["meeting_topics"] :
        j.topic_id \notin {t.topic_id : t \in db["topic"] \cup session["topic"]}

\* C23: the meeting transaction adds, for each of meeting_members,
\* meeting_projects and meeting_topics, one row per distinct resolved id,
\* however often the id was resolved; its commit fails only when the store
\* fails or a linked Topic does not exist, never because an id is repeated;
\* and the rows a successful run leaves are those rows.
C23_JunctionsDeduplicated ==
    /\ [][\A r \in Runs : \A t \in MeetingLinkTables :
            (run[r].pc = "meeting_flush" /\ run'[r].pc = "meeting_commit") =>
                LET ids == ResolvedIds(t, run[r])
                    rows == run'[r].session[t]
                IN  /\ {LinkedId(t, j) : j \in rows} = Range(ids)
                    /\ Cardinality(rows) = Cardinality(Range(ids))
                    /\ \A j \in rows : j.meeting_id = run'[r].meeting_id]_vars
    /\ [][\A r \in Runs :
            (run[r].pc = "meeting_commit" /\ run'[r].pc = "Failed") =>
                \/ failures' = failures + 1
                \/ MissingTopic(store, run[r].session)]_vars
    /\ [][\A r \in Runs : \A t \in MeetingLinkTables :
            (run[r].pc = "meeting_commit" /\ run'[r].pc = "Succeeded") =>
                /\ RowsBy(store', t, r) = run[r].session[t]
                /\ Cardinality(RowsBy(store', t, r))
                      = Cardinality(Range(ResolvedIds(t, run[r])))]_vars

\* C23 witness: a run that resolved three member names to two members, two
\* project names to one project and two topic entries to one topic has
\* succeeded, with two, one and one relationship rows.
C23_Witness ==
    \E r \in Runs :
        /\ run[r].pc = "Succeeded"
        /\ run[r].result.members_identified = 3
        /\ Cardinality(RowsBy(store, "meeting_members", r)) = 2
        /\ run[r].result.projects_linked = 2
        /\ Cardinality(RowsBy(store, "meeting_projects", r)) = 1
        /\ run[r].result.topics_linked = 2
        /\ Cardinality(RowsBy(store, "meeting_topics", r)) = 1

\* C24: when the meeting transaction is about to commit, it has added no
\* two task_members rows for the same task and member.
C24_TaskMembersASet ==
    \A r \in Runs :
        run[r].pc = "meeting_commit"
            => \A k \in 1..Len(run[r].processed_tasks) :
                  ~HasDuplicates(Adds(run[r]).task_members[k])

\* the ids of the rows of table t, read from column c
IdsOf(db, t, c) == {x[c] : x \in db[t]}

\* every relationship row of rows references rows that exist in db
RefsExist(rows, db) ==
    /\ \A j \in rows["meeting_members"] :
           /\ j.meeting_id \in IdsOf(db, "meeting", "meeting_id")
           /\ j.member_id \in IdsOf(db, "committee", "member_id")
    /\ \A j \in rows["meeting_projects"] :
           /\ j.meeting_id \in IdsOf(db, "meeting", "meeting_id")
           /\ j.project_id \in IdsOf(db, "projects", "project_id")
    /\ \A j \in rows["meeting_topics"] :
           /\ j.meeting_id \in IdsOf(db, "meeting", "meeting_id")
           /\ j.topic_id \in IdsOf(db, "topic", "topic_id")
    /\ \A j \in rows["meeting_tasks"] :
           /\ j.meeting_id \in IdsOf(db, "meeting", "meeting_id")
           /\ j.task_id \in IdsOf(db, "tasks", "task_id")
    /\ \A j \in rows["task_members"] :
           /\ j.task_id \in IdsOf(db, "tasks", "task_id")
           /\ j.member_id \in IdsOf(db, "committee", "member_id")

\* the foreign keys of models.py hold in the committed store
CommittedRefsExist == RefsExist(store, store)

\* C25: every relationship row of the committed store references rows that
\* exist, and the relationship rows a meeting transaction has added before
\* its commit reference rows that are in the store or pending in the same
\* transaction: the topic and task ids were resolved or created, and
\* exist, before the rows were added.
C25_ReferentialIntegrity ==
    /\ CommittedRefsExist
    /\ \A r \in Runs :
           run[r].pc = "meeting_commit"
               => RefsExist(run[r].session, Commit(store, run[r].session))

\* C26: every Meeting row of the store, committed or pending, has a name
\* that is not empty and a type of MEETING_TYPES.
C26_MeetingNamedAndTyped ==
    \A m \in store["meeting"] \cup UNION {run[r].session["meeting"] : r \in Runs} :
        /\ m.meeting_name # <<>>
        /\ m.meeting_type \in MEETING_TYPES

\* every entry of a cache is still there, unchanged
Kept(cache_before, cache_after) ==
    \A k \in DOMAIN cache_before :
        k \in DOMAIN cache_after /\ cache_after[k] = cache_before[k]

\* C27: no step changes the committee or projects rows or the members or
\* projects cache; no step removes or changes a committed Topic row or an
\* entry of the topics cache: topics are only added.
C27_CatalogOnlyGrows ==
    [][/\ store'["committee"] = store["committee"]
       /\ store'["projects"] = store["projects"]
       /\ committee_members' = committee_members
       /\ projects' = projects
       /\ store["topic"] \subseteq store'["topic"]
       /\ \A t \in store'["topic"] \ store["topic"] :
              t.topic_id \notin IdsOf(store, "topic", "topic_id")
       /\ Kept(topics, topics')]_vars

\* the completion calls process_transcript has behind it at a position
CallsBehind(pc) ==
    CASE pc \in {"idle", "await_members_projects"} -> 0
      [] pc = "await_topics" -> 1
      [] pc = "await_tasks" -> 2
      [] pc = "await_summary" -> 3
      [] OTHER -> 4

\* the part of process_transcript a position is in: the extractions, the
\* topics transaction, the tasks transaction, the meeting transaction, the
\* end
Stage(pc) ==
    CASE pc = "idle" -> 0
      [] pc \in ExtractStage -> 1
      [] pc \in {"topics_flush", "topics_commit"} -> 2
      [] pc \in {"tasks_flush", "tasks_commit"} -> 3
      [] pc \in PersistStage -> 4
      [] OTHER -> 5

\* C28: a run that is under way has called the completion service exactly
\* once for each extraction behind it, whether the call raised or not, and
\* a run never makes more than four calls; a run never goes back to an
\* extraction or a transaction it has left, a store operation that fails
\* ends the run as Failed, and a run that has ended stays ended.
C28_NoAutomaticRetry ==
    /\ [](\A r \in Runs :
            /\ Alive(r) => run[r].llm_calls = CallsBehind(run[r].pc)
            /\ run[r].llm_calls <= CallsBehind("Succeeded")
            /\ run[r].pc = "Succeeded" => run[r].llm_calls = CallsBehind("Succeeded"))
    /\ [][\A r \in Runs :
            /\ Stage(run'[r].pc) >= Stage(run[r].pc)
            /\ CallsBehind(run'[r].pc) >= CallsBehind(run[r].pc) \/ ~Alive(r)'
            /\ (run[r].pc \in ExtractStage /\ run'[r].pc # run[r].pc)
                  => /\ run'[r].llm_calls = run[r].llm_calls + 1
                     /\ run'[r].pc \notin ExtractStage
                           \/ CallsBehind(run'[r].pc) = CallsBehind(run[r].pc) + 1
            /\ run'[r].pc = run[r].pc => run'[r].llm_calls = run[r].llm_calls
            /\ run[r].pc \in {"Succeeded", "Failed"} => run'[r].pc = run[r].pc]_vars
    /\ [][failures' # failures
            => \E r \in Runs : Alive(r) /\ run'[r].pc = "Failed"]_vars

\* C28 witness: the run has ended as Failed on a store operation after four
\* completion calls, one of which the client had given up and one of which
\* raised otherwise.
C28_Witness ==
    /\ run[1].pc = "Failed"
    /\ run[1].error = "StorageError"
    /\ failures = 1
    /\ run[1].llm_calls = 4
    /\ run[1].given_up # {}
    /\ run[1].degraded # run[1].given_up

\* the environment lacks the connection string or the API key
Incomplete == ~bot.DATABASE_URL \/ ~bot.OPENAI_API_KEY

\* C29: in an environment without DATABASE_URL or without OPENAI_API_KEY
\* every get_integrator ends in the constructor's ValueError: no engine is
\* ever stored, setup() is never called and no catalog is loaded, no run
\* starts, no completion call is made and the store is never written.
C29_ConfigurationFailsFast ==
    /\ Incomplete =>
          /\ bot.transcript_integrator = "None"
          /\ bot.setup = "not_called" /\ bot.setups = 0
          /\ \A r \in Runs : bot.caller[r] \in {"idle", "ValueError"}
          /\ committee_members = NoCache /\ projects = NoCache /\ topics = NoCache
          /\ \A r \in Runs : run[r] = IdleFrame
          /\ failures = 0
          /\ seq = [topic |-> 2, tasks |-> 1, meeting |-> 1]
          /\ \A t \in Tables \ {"committee", "projects", "topic"} : store[t] = {}
          /\ store["committee"] = CommitteeRows
          /\ store["projects"] = ProjectRows
          /\ store["topic"] = TopicRows
    /\ \A r \in Runs : bot.caller[r] = "ValueError" => Incomplete

\* each of the two settings missing alone, and a command has asked for the
\* engine and got the ValueError
C29_Witness ==
    /\ bot.DATABASE_URL # bot.OPENAI_API_KEY
    /\ \A r \in Runs : bot.caller[r] = "ValueError"

\* the caches of an engine whose setup() has completed on the catalog
Loaded ==
    /\ committee_members = LoadCommitteeMembers(CommitteeRows)
    /\ projects = LoadProjects(ProjectRows)
    /\ DOMAIN LoadTopics(TopicRows) \subseteq DOMAIN topics

\* setup() is called at most once, and once it has completed the caches
\* hold the catalog
SetupOnce ==
    /\ bot.setups <= 1
    /\ bot.setup = "done" => Loaded

\* C30: a command that has the engine from get_integrator has an engine
\* whose setup() has completed, a run under way resolves names against the
\* loaded catalog, and setup() is called at most once.
C30_LazyInitSafe ==
    /\ \A r \in Runs : bot.caller[r] = "returned" => bot.setup = "done"
    /\ \A r \in Runs : Alive(r) => Loaded
    /\ SetupOnce

\* C31: when no run is under way, every entry of the topics cache carries
\* the id of a committed Topic row.
C31_CacheBehindStore ==
    (\A r \in Runs : ~Alive(r)) =>
        \A key \in DOMAIN topics :
            \E row \in store["topic"] : row.topic_id = topics[key].id

\* the rows of relationship table t the store holds for a meeting
RowsOfMeeting(t, meeting_id) == {j \in store[t] : j.meeting_id = meeting_id}

\* C32: the counts a successful run returns are the numbers of
\* meeting-member, meeting-project, meeting-topic and meeting-task rows the
\* store holds for the returned meeting_id.
C32_CountsEqualStored ==
    \A r \in Runs :
        run[r].pc = "Succeeded" =>
            LET res == run[r].result
                rows(t) == Cardinality(RowsOfMeeting(t, res.meeting_id))
            IN  /\ res.members_identified = rows("meeting_members")
                /\ res.projects_linked = rows("meeting_projects")
                /\ res.topics_linked = rows("meeting_topics")
                /\ res.tasks_created = rows("meeting_tasks")

\* the count of tasks is the number of meeting-task rows
TasksCounted ==
    \A r \in Runs :
        run[r].pc = "Succeeded" =>
            run[r].result.tasks_created =
                Cardinality(RowsOfMeeting("meeting_tasks", run[r].result.meeting_id))

\* task.get('deadline'): None when the key is missing
DeadlineOf(task) == IF "deadline" \in DOMAIN task THEN task.deadline ELSE None

\* a string in YYYY-MM-DD form: four digits, two digits and two digits
\* between hyphens
IsYmdForm(s) ==
    /\ Len(s) = 10
    /\ s[5] = "-" /\ s[8] = "-"
    /\ \A k \in {1, 2, 3, 4, 6, 7, 9, 10} : IsDigit(s[k])

\* the date a string in YYYY-MM-DD form names, and whether it is a day of
\* the calendar
YmdDate(s) ==
    <<IntOf(SubSeq(s, 1, 4)), IntOf(SubSeq(s, 6, 7)), IntOf(SubSeq(s, 9, 10))>>
IsDate(d) == d[1] >= 1 /\ d[2] \in 1..12 /\ d[3] \in 1..DaysIn(d[1], d[2])

\* the deadline the statement gives a task: the date of a valid YYYY-MM-DD
\* string, and none for anything else
YmdOnly(v) ==
    IF v \in DeadlineStrings /\ IsYmdForm(v) /\ IsDate(YmdDate(v))
    THEN YmdDate(v) ELSE NoDeadline

\* the deadline datetime.strptime(v, '%Y-%m-%d') gives each of the values
\* above in CPython, with the ValueError caught: a month or day of one
\* digit and a day written with a leading blank are accepted as well
AsStrptime(v) ==
    CASE v \in {Padded, Unpadded, BlankDay} -> <<2026, 3, 1>>
      [] v = LeapDay -> <<2024, 2, 29>>
      [] OTHER -> NoDeadline

\* every deadline of the list is a string or is missing
StringsOrMissing(tasks_data) ==
    \A k \in 1..Len(tasks_data) : DeadlineOf(tasks_data[k]) # ANumber

\* a run in its persist stage has created a Task for every named task of
\* its extraction, committed with the deadline Expected gives it
TasksStoredWith(Expected(_)) ==
    \A r \in Runs :
        run[r].pc \in PersistStage =>
            LET f == run[r]
                named == NamedTasks(f.tasks_data)
            IN  /\ Len(f.processed_tasks) = Cardinality(named)
                /\ \A k \in named :
                      LET e == f.processed_tasks[RankIn(named, k)]
                      IN  /\ e.deadline = Expected(DeadlineOf(f.tasks_data[k]))
                          /\ \E row \in store["tasks"] :
                                /\ row.task_id = e.task_id
                                /\ row.task_deadline = e.deadline

\* a run whose deadlines are strings or missing leaves _process_tasks with
\* an exception only when a flush or the commit raised
NotAbortedByDeadline ==
    \A r \in Runs :
        /\ run[r].pc \in {"topics_commit", "tasks_flush", "tasks_commit"}
        /\ StringsOrMissing(run[r].tasks_data)
        /\ run'[r].pc = "Failed"
        => run'[r].error = "StorageError"

\* C33 as stated: a deadline in YYYY-MM-DD form is stored as that date, a
\* missing deadline, 'null' or any other string gives a Task without a
\* deadline, and in all these cases the Task is created and the run is not
\* aborted.
C33_DeadlineYmdOnly ==
    /\ []TasksStoredWith(YmdOnly)
    /\ [][NotAbortedByDeadline]_vars

\* C33: a deadline string that strptime('%Y-%m-%d') accepts (the YYYY-MM-DD
\* form, and also a month or day of one digit or a day with a leading
\* blank) is stored as the date it names; a missing deadline, 'null' or a
\* string strptime refuses gives a Task without a deadline; in all these
\* cases the Task is created and the run is not aborted.
C33_DeadlineNeverLosesTask ==
    /\ []TasksStoredWith(AsStrptime)
    /\ [][NotAbortedByDeadline]_vars

\* a run about to commit its meeting whose first task had the deadline
\* "soon" and is committed without a deadline, and whose second task is
\* committed with the date of its deadline "2026-03-01"
C33_Witness ==
    \E r \in Runs :
        /\ run[r].pc = "meeting_commit"
        /\ Len(run[r].tasks_data) = 2
        /\ DeadlineOf(run[r].tasks_data[1]) = NotADate
        /\ DeadlineOf(run[r].tasks_data[2]) = Padded
        /\ Len(run[r].processed_tasks) = 2
        /\ \E row \in store["tasks"] :
              /\ row.task_id = run[r].processed_tasks[1].task_id
              /\ row.task_deadline = NoDeadline
        /\ \E row \in store["tasks"] :
              /\ row.task_id = run[r].processed_tasks[2].task_id
              /\ row.task_deadline = <<2026, 3, 1>>

\* the four steps of the wizard
WizardSteps == {"meeting_type", "date", "meeting_name", "destination_folder"}

\* C34: when the wizard has been cancelled, it was at one of its four
\* steps, and the files and folders are the ones there were when it
\* started (the original among them, no copy made) and no integration has
\* been started.
C34_CancelLeavesUntouched ==
    handler.outcome = "cancelled" =>
        /\ handler.cancelled_at \in WizardSteps
        /\ handler.fs = handler.before.fs
        /\ handler.file_path \in handler.fs
        /\ handler.dirs = handler.before.dirs
        /\ handler.threads = handler.before.threads
        /\ ~handler.copied /\ ~handler.deleted

\* a wizard cancelled at its fourth step, after one that ran the analysis
C34_Witness ==
    /\ handler.outcome = "cancelled"
    /\ handler.cancelled_at = "destination_folder"
    /\ handler.threads # {}


\* C35: the original is gone only when the file has been copied to the
\* destination, which is there, and the answer to the deletion prompt was
\* yes; an analysis has been started by this wizard only when the file has
\* been copied, on the destination path, and the answer to the analysis
\* prompt was yes or empty; and a wizard that ended in an error without a
\* copy has left the original where it was and started no analysis.
C35_CopyBeforeDeleteAndRun ==
    /\ handler.deleted \/ handler.file_path \notin handler.fs \cup {NoPath} =>
          /\ handler.deleted /\ handler.copied
          /\ handler.destination_path \in handler.fs
          /\ handler.answers.delete_original \in {<<"y">>, <<"y", "e", "s">>}
    /\ handler.threads # handler.before.threads =>
          /\ handler.copied
          /\ handler.destination_path \in handler.fs
          /\ handler.threads \ handler.before.threads =
                 {[transcript_path |-> handler.destination_path,
                   meeting_name |-> handler.meeting_name,
                   meeting_type |-> handler.meeting_type]}
          /\ handler.answers.run_integration \in
                 {<<>>, <<"y">>, <<"y", "e", "s">>}
    /\ handler.outcome = "error" /\ ~handler.copied =>
          /\ handler.fs = handler.before.fs
          /\ handler.file_path \in handler.fs
          /\ handler.threads = handler.before.threads
    /\ \A t \in handler.threads :
          /\ t.transcript_path \in handler.fs
          /\ StartsWith(t.transcript_path.name, IngestedPrefix)

\* a wizard that has copied the file, deleted the original and started the
\* analysis
C35_Witness ==
    /\ handler.outcome = "complete"
    /\ handler.copied /\ handler.deleted
    /\ handler.file_path \notin handler.fs
    /\ handler.threads # handler.before.threads

\* s.endswith(p)
EndsWith(s, p) ==
    Len(s) >= Len(p) /\ SubSeq(s, Len(s) - Len(p) + 1, Len(s)) = p

\* C36: no path has had two wizards, and every path that has had one is a
\* file directly in the watched folder whose name does not start with "."
\* or INGESTED_ and ends in .txt, .md or .text (in any case).
C36_PromptOncePerPath ==
    /\ ~HasDuplicates(handler.wizards)
    /\ \A k \in 1..Len(handler.wizards) :
          LET file_path == handler.wizards[k]
          IN  /\ file_path.root = "watch" /\ file_path.parts = <<>>
              /\ file_path.name[1] # "."
              /\ ~StartsWith(file_path.name, IngestedPrefix)
              /\ \E suffix \in TextSuffixes :
                    EndsWith(Lower(file_path.name), suffix)

\* two creation events for the same path have been handled, the second
\* after the wizard of the first had ended, and one wizard was started
C36_Witness ==
    /\ handler.events = 2
    /\ handler.pc = "idle" /\ handler.outcome = "none"
    /\ handler.fs = {Path("watch", <<>>, <<"a", ".", "t", "x", "t">>)}
    /\ handler.dirs = {}
    /\ Len(handler.wizards) = 1

\* the responses that ask for tools
ToolKinds == {"one tool call", "two tool calls"}

\* the text of the model in a response without tool calls to the n-th
\* message; a response without a content has none, and the loop returns
\* its stock sentence for it
ModelText(kind, n) ==
    CASE kind = "content" -> Text("content", n)
      [] kind = "long content" -> Text("long content", n)
      [] OTHER -> Processed

\* C37: process_with_tools makes at most max_iterations (5) completion
\* calls for one message: a running loop has made iteration calls, one
\* more than the responses it has got while it waits for a response, and
\* never more than 5; every response before the last one of a finished
\* loop asked for tools; a loop that returned has returned the text of the
\* model in its last response when that response asked for no tools, and
\* otherwise the fixed sentence, after exactly 5 responses
C37_ToolLoopTerminates ==
    /\ \A h \in Handlers :
          LET f == chat.task[h]
          IN  /\ f.iteration <= max_iterations
              /\ f.pc = "completion" => Len(f.responses) = f.iteration - 1
              /\ f.pc = "tool" => Len(f.responses) = f.iteration
              /\ \A i \in 1 .. Len(f.responses) : f.responses[i] \in ToolKinds
    /\ LET s == chat.sent
           calls == Len(s.responses)
       IN  /\ calls <= max_iterations
           /\ \A i \in 1 .. (calls - 1) : s.responses[i] \in ToolKinds
           /\ (s.n # 0 /\ ~s.raised) =>
                 /\ calls >= 1
                 /\ s.responses[calls] \notin ToolKinds =>
                       s.returned = ModelText(s.responses[calls], s.n)
                 /\ s.responses[calls] \in ToolKinds =>
                       /\ calls = max_iterations
                       /\ s.returned = Complexity

\* a loop has given up after 5 responses that all asked for tools, for a
\* message that followed one the model answered with a text
C37_Witness ==
    /\ chat.sent.n = 2
    /\ ~chat.sent.raised
    /\ Len(chat.sent.responses) = max_iterations
    /\ chat.sent.returned = Complexity
    /\ Len(chat.lists[chat.conversation_history[<<1, 1>>]]) = 4

\* bot.conversation_history.get(key, []) as a sequence
Stored(c, k) ==
    IF c.conversation_history[k] = NoList THEN <<>>
    ELSE c.lists[c.conversation_history[k]]

\* C38: the stored history of every key holds at most 12 messages, and
\* they are the most recent of the user/assistant pairs of the messages
\* to that key that were answered, in the order they were answered
C38_HistoryIsRecentPairs ==
    \A k \in Keys :
        /\ Len(Stored(chat, k)) <= 12
        /\ Stored(chat, k) = LastOf(chat.pairs[k], 12)

\* a handler that ends in except Exception leaves every stored history as
\* it was
RaisedLeavesHistory ==
    [][\A h \in Handlers :
          (chat.task[h].pc # "idle" /\ chat'.task[h].pc = "idle"
              /\ chat'.sent.raised)
          => \A k \in Keys : Stored(chat', k) = Stored(chat, k)]_vars

\* a stored history changes only in the step that ends a handler of its
\* key
OtherKeysUntouched ==
    [][\A k \in Keys :
          Stored(chat', k) # Stored(chat, k)
          => \E h \in Handlers :
                /\ chat.task[h].pc # "idle"
                /\ chat.task[h].key = k
                /\ chat'.task[h].pc = "idle"]_vars

====
